---- MODULE Spec2Model ----
(***************************************************************************)
(* A model of the MPD protocol client.                                     *)
(*                                                                         *)
(* Spec       the protocol session of packages/MPD/mpd.ts (class MPD):     *)
(*            the idling flag, the connections it opens and the async      *)
(*            command methods, each split at its await points.             *)
(* LegacySpec the first client of src/mpd.ts and src/main.ts, which holds  *)
(*            one connection (MPD.conn) that disconnect() sets to null.    *)
(* FramerSpec getResponse, the loop behind TCPClient.readAll that reads     *)
(*            chunks until a terminator.                                   *)
(* BinarySpec MPD.sendCommandBinary and handleBinaryResponse: the chunk     *)
(*            loop of a binary response.                                   *)
(* FilterSpec createFilter, applied to a filter and to its own result.     *)
(* ParseSpec  the response parsers of src/main.ts.                         *)
(* CommandSpec the request lines of the database and queue commands of     *)
(*            packages/MPD/mpd.ts.                                         *)
(* CommandListSpec  commandListOK of packages/MPD/types.ts.                *)
(* QueueSpec  MPDClient.clearRestOfQueue of src/main.ts.                   *)
(* ExchangeSpec  the session with either its text commands or a            *)
(*            sendCommandBinary call.                                      *)
(*                                                                         *)
(* Text the code inspects or builds (responses, error messages, the        *)
(* command lines of CommandSpec, CommandListSpec and QueueSpec) is a       *)
(* sequence of one-character strings; the fixed request lines of the       *)
(* session models are strings.                                             *)
(***************************************************************************)
EXTENDS Integers, Sequences, FiniteSets, TLC

VARIABLES
  idling,    \* MPD.idling
  conns,     \* the connections TCPClient.connect has returned, each with
             \* the operations performed on it, in order
  calls,     \* the method invocations made on the session, in order
  lconn,     \* legacy MPD.conn: "open" or "null"
  lidling,   \* legacy MPD.idling
  lworkers,  \* legacy: idle workers started
  lcalls,    \* legacy: the method invocations, in order
  llog,      \* legacy: operations performed on the connection, in order
  fstream,   \* framer: the bytes the peer sends before it falls silent
  fpos,      \* framer: how many of them conn.read has delivered
  fdata,     \* framer: getResponse's `data`
  fcontent,  \* framer: getResponse's `content`, the chunk read last
  fpc,       \* framer: "idle", "reading", "returned" or "threw"
  feof,      \* framer: a read has reported end-of-stream (null)
  fret,      \* framer: what getResponse returned
  ferr,      \* framer: the message of the error getResponse threw
  bfile,     \* binary: the bytes of the file the daemon serves
  bpc,       \* binary: where sendCommandBinary stands
  boff,      \* binary: sendCommandBinary's `off`
  bchunks,   \* binary: sendCommandBinary's `chunks`
  breqs,     \* binary: the offsets of the chunk requests written, in order
  bops,      \* binary: the operations performed on the connection, in order
  bsent,     \* binary: the responses the daemon has sent, in order
  bresult,   \* binary: what sendCommandBinary returned
  berr,      \* binary: the message of the error sendCommandBinary threw
  cfin,      \* filter: the argument of createFilter
  cfpc,      \* filter: "idle", "start", "compiled" or "recompiled"
  cfout,     \* filter: createFilter(cfin)
  cfagain,   \* filter: createFilter(cfout)
  plines,    \* parser: the lines of the response text
  psep,      \* parser: the separatorTag argument
  ppc,       \* parser: "idle", "start" or "done"
  pfn,       \* parser: the function applied
  pout,      \* parser: what it returned
  pallow,    \* parser: the allowUnknownKeys argument
  mcall,     \* commands: the method called, with its arguments
  mpc,       \* commands: "idle", "start", "written" or "settled"
  mline,     \* commands: the request written to the connection
  mret,      \* commands: how the promise of the call settled
  kcmds,     \* command list: the commands given to commandListOK
  kresps,    \* command list: the response lines of each command
  kpc,       \* command list: "idle", "start", "written" or "done"
  kline,     \* command list: the request written to the connection
  kdone,     \* command list: how many commands the daemon completed
  kout,      \* command list: the records commandListOK returned
  qfiles,    \* queue: the files of the daemon's queue, in order
  qsong,     \* queue: the position of the current song, if there is one
  qpc,       \* queue: where clearRestOfQueue stands
  qlog,      \* queue: the requests written and responses read, in order
  qposition, \* queue: clearRestOfQueue's currentPosition
  qret       \* queue: how the promise of clearRestOfQueue settled

svars == <<idling, conns, calls>>
lvars == <<lconn, lidling, lworkers, lcalls, llog>>
fvars == <<fstream, fpos, fdata, fcontent, fpc, feof, fret, ferr>>
cvars == <<cfin, cfpc, cfout, cfagain>>
pvars == <<plines, psep, ppc, pfn, pout, pallow>>
bvars == <<bfile, bpc, boff, bchunks, breqs, bops, bsent, bresult, berr>>
qvars == <<qfiles, qsong, qpc, qlog, qposition, qret>>
kvars == <<kcmds, kresps, kpc, kline, kdone, kout>>
mvars == <<mcall, mpc, mline, mret>>
vars == <<idling, conns, calls, lconn, lidling, lworkers, lcalls, llog,
          fstream, fpos, fdata, fcontent, fpc, feof, fret, ferr,
          bfile, bpc, boff, bchunks, breqs, bops, bsent, bresult, berr,
          cfin, cfpc, cfout, cfagain,
          plines, psep, ppc, pfn, pout, pallow,
          mcall, mpc, mline, mret,
          kcmds, kresps, kpc, kline, kdone, kout,
          qfiles, qsong, qpc, qlog, qposition, qret>>

\* What each part of the model leaves alone.
notS == <<lvars, fvars, bvars, cvars, pvars, mvars, kvars, qvars>>
notL == <<svars, fvars, bvars, cvars, pvars, mvars, kvars, qvars>>
notF == <<svars, lvars, bvars, cvars, pvars, mvars, kvars, qvars>>
notB == <<svars, lvars, fvars, cvars, pvars, mvars, kvars, qvars>>
notC == <<svars, lvars, fvars, bvars, pvars, mvars, kvars, qvars>>
notM == <<svars, lvars, fvars, bvars, cvars, pvars, kvars, qvars>>
notP == <<svars, lvars, fvars, bvars, cvars, mvars, kvars, qvars>>
notQ == <<svars, lvars, fvars, bvars, cvars, pvars, mvars, kvars>>
notK == <<svars, lvars, fvars, bvars, cvars, pvars, mvars, qvars>>

\* Bounds of the model.
MaxCalls == 2
MaxLegacyCalls == 2

(***************************************************************************)
(* Text                                                                    *)
(***************************************************************************)

\* String.prototype.startsWith
StartsWith(s, p) == Len(s) >= Len(p) /\ SubSeq(s, 1, Len(p)) = p

AckPrefix == <<"A", "C", "K", " ">>

\* Responses the daemon may send.
RespOK == <<"O", "K", "\n">>
RespAck == <<"A", "C", "K", " ", "e", "\n">>
RespAckKey == <<"A", "C", "K", "s", ":", " ", "1", "\n", "O", "K", "\n">>
Responses == {RespOK, RespAck, RespAckKey}

\* What a promise carries that is no text of the daemon.
Undefined == <<"undefined">>
AlreadyIdling == <<"Already idling">>
TransportFault == <<"transport fault">>

\* handleError with the prefix test of the first client ("ACK", no space).
handleErrorLoose(input) ==
  IF StartsWith(input, <<"A", "C", "K">>)
  THEN [threw |-> TRUE, name |-> "ACKError", value |-> input]
  ELSE [threw |-> FALSE, name |-> "", value |-> input]

\* handleError: throws ACKError(input) when input starts with "ACK ".
handleError(input) ==
  IF StartsWith(input, AckPrefix)
  THEN [threw |-> TRUE, name |-> "ACKError", value |-> input]
  ELSE [threw |-> FALSE, name |-> "", value |-> input]

\* new TextDecoder().decode(noidleBuffer): the bytes read, then the rest of the
\* zero-filled buffer.
NoidleBufferSize == 128
decodeBuffer(bytes) ==
  bytes \o [k \in 1..(NoidleBufferSize - Len(bytes)) |-> "NUL"]

(***************************************************************************)
(* The session's command methods                                           *)
(***************************************************************************)

\* await sendCommand(..), then return handleError(result)
CheckedMethods == {"status", "ping"}
\* return sendCommand(..)
ReturnedMethods == {"findAdd"}
\* await sendCommand(..), nothing returned
AwaitedMethods == {"pause"}
\* sendCommand(..) called and its promise dropped
DroppedMethods == {"clear", "add"}
CommandMethods ==
  CheckedMethods \cup ReturnedMethods \cup AwaitedMethods \cup DroppedMethods
Methods == CommandMethods \cup {"idle", "noidle"}

\* The request line each method builds (arguments fixed).
MethodMsg(m) ==
  CASE m = "status" -> "status"
    [] m = "ping" -> "ping"
    [] m = "findAdd" -> "findadd \"(album == 'a')\""
    [] m = "pause" -> "pause"
    [] m = "clear" -> "clear"
    [] m = "add" -> "add a"
    [] m = "idle" -> "idle player"
    [] m = "noidle" -> "noidle"

NoidleLine == "noidle" \o "\n"
RequestLine(m) == MethodMsg(m) \o "\n"

\* sendCommand without the cancellation step.
sendCommandStartNoCancel(flag) == "connect"

\* sendCommand: `if (this.idling)` chooses the cancellation step first.
sendCommandStart(flag) == IF flag THEN "nc_connect" ELSE "connect"

\* idle() without its guard.
idleStartUnguarded(flag) == "i_connect"

\* idle: `if (!this.idling)` connects, otherwise throws.
idleStart(flag) == IF ~flag THEN "i_connect" ELSE "failed"

\* The promise a method returns, as it stands when the call returns.
PromiseAtCall(m, flag) ==
  IF m \in DroppedMethods THEN "resolved"
  ELSE IF m = "idle" /\ idleStart(flag) = "failed" THEN "rejected"
  ELSE "pending"

NewCall(m, flag) ==
  [ method |-> m,
    wasIdling |-> flag,
    pc |-> IF m = "idle" THEN idleStart(flag)
           ELSE IF m = "noidle" THEN "n_connect"
           ELSE sendCommandStart(flag),
    conn |-> 0,
    iconn |-> 0,
    promise |-> PromiseAtCall(m, flag),
    err |-> IF m = "idle" /\ idleStart(flag) = "failed" THEN "Error" ELSE "",
    value |-> IF m = "idle" /\ idleStart(flag) = "failed" THEN AlreadyIdling
              ELSE Undefined,
    resp |-> <<>> ]

\* connect() resolves with a new connection every time: the one call i opens
\* for its cancellation step, and the one it opens for its own request.
CancelConnOf(i) == 2 * i - 1
ConnOf(i) == 2 * i

Op(op, d) == [op |-> op, data |-> d]
NewConn(i) == [open |-> TRUE, owner |-> i, ops |-> <<>>, recv |-> <<>>]
Did(c, op, d) == [conns EXCEPT ![c].ops = Append(@, Op(op, d))]

\* The caller awaits each command before it issues the next; an idle may stay
\* outstanding meanwhile.
CallerReady ==
  \A i \in DOMAIN calls :
    calls[i].method # "idle" => calls[i].promise # "pending"

\* new MPD(..): not idling, nothing sent yet.
SessionInit ==
  /\ idling = FALSE
  /\ conns = <<>>
  /\ calls = <<>>

\* MPDClient.init(..) of the first client: connected.
LegacyInit ==
  /\ lconn = "open"
  /\ lidling = FALSE
  /\ lworkers = 0
  /\ lcalls = <<>>
  /\ llog = <<>>

\* No readAll is under way.
FramerRest ==
  /\ fstream = <<>>
  /\ fpos = 0
  /\ fdata = <<>>
  /\ fcontent = <<>>
  /\ fpc = "idle"
  /\ feof = FALSE
  /\ fret = <<>>
  /\ ferr = <<>>

\* No sendCommandBinary is under way.
BinaryRest ==
  /\ bfile = <<>>
  /\ bpc = "idle"
  /\ boff = 0
  /\ bchunks = <<>>
  /\ breqs = <<>>
  /\ bops = <<>>
  /\ bsent = <<>>
  /\ bresult = <<>>
  /\ berr = <<>>

\* No createFilter call is under way.
FilterRest ==
  /\ cfin = <<>>
  /\ cfpc = "idle"
  /\ cfout = <<>>
  /\ cfagain = <<>>

\* No response is being parsed.
ParseRest ==
  /\ plines = <<>>
  /\ psep = <<>>
  /\ ppc = "idle"
  /\ pfn = ""
  /\ pout = <<>>
  /\ pallow = FALSE

\* No command is being serialised.
CommandRest ==
  /\ mcall = <<>>
  /\ mpc = "idle"
  /\ mline = <<>>
  /\ mret = <<>>

\* No command list is under way.
CommandListRest ==
  /\ kcmds = <<>>
  /\ kresps = <<>>
  /\ kpc = "idle"
  /\ kline = <<>>
  /\ kdone = 0
  /\ kout = <<>>

\* No clearRestOfQueue is under way.
QueueRest ==
  /\ qfiles = <<>>
  /\ qsong = <<>>
  /\ qpc = "idle"
  /\ qlog = <<>>
  /\ qposition = <<>>
  /\ qret = ""

Init ==
  /\ SessionInit
  /\ LegacyInit
  /\ QueueRest
  /\ CommandListRest
  /\ CommandRest
  /\ FramerRest
  /\ BinaryRest
  /\ FilterRest
  /\ ParseRest

\* The host assigns the public field `idling`.
SetIdling ==
  /\ ~idling
  /\ idling' = TRUE
  /\ UNCHANGED <<conns, calls, notS>>

\* A method is invoked: its synchronous part runs up to the first await.
Call(m) ==
  /\ Len(calls) < MaxCalls
  /\ CallerReady
  /\ calls' = Append(calls, NewCall(m, idling))
  /\ UNCHANGED <<idling, conns, notS>>

\* sendCommand: await this.#conn.connect(..) resolves with idleConnection.
ConnectCancel(i) ==
  /\ calls[i].pc = "nc_connect"
  /\ conns' = (CancelConnOf(i) :> NewConn(i)) @@ conns
  /\ calls' = [calls EXCEPT ![i].iconn = CancelConnOf(i), ![i].pc = "nc_write"]
  /\ UNCHANGED <<idling, notS>>

\* sendCommand: await idleConnection.write("noidle\n")
WriteCancel(i) ==
  /\ calls[i].pc = "nc_write"
  /\ conns' = Did(calls[i].iconn, "write", NoidleLine)
  /\ calls' = [calls EXCEPT ![i].pc = "nc_read"]
  /\ UNCHANGED <<idling, notS>>

\* sendCommand: await idleConnection.read(noidleBuffer)
ReadCancel(i) ==
  /\ calls[i].pc = "nc_read"
  /\ conns' = Did(calls[i].iconn, "read", "")
  /\ calls' = [calls EXCEPT ![i].pc = "connect"]
  /\ UNCHANGED <<idling, notS>>

\* await this.#conn.connect(..) resolves with the connection of the request:
\* sendCommand, idle, noidle.
Connect(i) ==
  /\ calls[i].pc \in {"connect", "i_connect", "n_connect"}
  /\ conns' = (ConnOf(i) :> NewConn(i)) @@ conns
  /\ calls' = [calls EXCEPT ![i].conn = ConnOf(i),
                            ![i].pc = CASE @ = "connect" -> "write"
                                        [] @ = "i_connect" -> "i_write"
                                        [] @ = "n_connect" -> "n_write"]
  /\ UNCHANGED <<idling, notS>>

\* await connection.write(..) of the request line: sendCommand, idle, noidle.
Write(i) ==
  /\ calls[i].pc \in {"write", "i_write", "n_write"}
  /\ conns' = Did(calls[i].conn, "write", RequestLine(calls[i].method))
  /\ calls' = [calls EXCEPT ![i].pc = CASE @ = "write" -> "readAll"
                                        [] @ = "i_write" -> "i_readAll"
                                        [] @ = "n_write" -> "n_read"]
  /\ UNCHANGED <<idling, notS>>

\* What the method's promise becomes once sendCommand has returned `resp`.
SettleCommand(c, resp) ==
  IF c.method \in CheckedMethods
  THEN LET h == handleError(resp) IN
       [c EXCEPT !.promise = IF h.threw THEN "rejected" ELSE "resolved",
                 !.err = h.name, !.value = h.value]
  ELSE IF c.method \in ReturnedMethods
  THEN [c EXCEPT !.promise = "resolved", !.value = resp]
  ELSE IF c.method \in AwaitedMethods
  THEN [c EXCEPT !.promise = "resolved", !.value = Undefined]
  ELSE c

\* sendCommand leaving its connection open when the response is an error.
ReadAllOpenOnAck(i, resp) ==
  /\ calls[i].pc = "readAll"
  /\ conns' = [conns EXCEPT
       ![calls[i].conn].ops =
         IF StartsWith(resp, AckPrefix) THEN Append(@, Op("readAll", ""))
         ELSE @ \o <<Op("readAll", ""), Op("close", "")>>,
       ![calls[i].conn].open = StartsWith(resp, AckPrefix),
       ![calls[i].conn].recv = resp]
  /\ calls' = [calls EXCEPT ![i] =
       SettleCommand([@ EXCEPT !.pc = "done", !.resp = resp], resp)]
  /\ UNCHANGED <<idling, notS>>

\* sendCommand closing its connection before it reads the response.
ReadAllCloseFirst(i, resp) ==
  /\ calls[i].pc = "readAll"
  /\ conns' = [conns EXCEPT
       ![calls[i].conn].ops = @ \o <<Op("close", ""), Op("readAll", "")>>,
       ![calls[i].conn].open = FALSE,
       ![calls[i].conn].recv = resp]
  /\ calls' = [calls EXCEPT ![i] =
       [@ EXCEPT !.pc = "done", !.resp = resp, !.value = resp,
                 !.promise = "resolved"]]
  /\ UNCHANGED <<idling, notS>>

\* sendCommand: await connection.readAll() resolves with the text the framer
\* read from the connection (recv); connection.close(); return response; the
\* method's continuation runs.
ReadAll(i, resp) ==
  /\ calls[i].pc = "readAll"
  /\ conns' = [conns EXCEPT
       ![calls[i].conn].ops = @ \o <<Op("readAll", ""), Op("close", "")>>,
       ![calls[i].conn].open = FALSE,
       ![calls[i].conn].recv = resp]
  /\ calls' = [calls EXCEPT ![i] =
       SettleCommand([@ EXCEPT !.pc = "done", !.resp = resp], resp)]
  /\ UNCHANGED <<idling, notS>>

\* idle: await connection.readAll() resolves; return handleError(result).
IdleReadAll(i, resp) ==
  /\ calls[i].pc = "i_readAll"
  /\ conns' = [conns EXCEPT ![calls[i].conn].ops = Append(@, Op("readAll", "")),
                            ![calls[i].conn].recv = resp]
  /\ calls' = [calls EXCEPT ![i] =
       LET h == handleError(resp) IN
       [@ EXCEPT !.pc = "done", !.resp = resp,
                 !.promise = IF h.threw THEN "rejected" ELSE "resolved",
                 !.err = h.name, !.value = h.value]]
  /\ UNCHANGED <<idling, notS>>

\* noidle clearing the flag only when the reply is no error.
NoidleReadKeepsFlagOnError(i, resp) ==
  /\ calls[i].pc = "n_read"
  /\ conns' = Did(calls[i].conn, "read", "")
  /\ idling' = IF handleError(decodeBuffer(resp)).threw THEN idling ELSE FALSE
  /\ calls' = [calls EXCEPT ![i] =
       LET h == handleError(decodeBuffer(resp)) IN
       [@ EXCEPT !.pc = "done", !.resp = resp,
                 !.promise = IF h.threw THEN "rejected" ELSE "resolved",
                 !.err = h.name, !.value = h.value]]
  /\ UNCHANGED <<notS>>

\* noidle: await connection.read(noidleBuffer) resolves; decode the buffer;
\* this.idling = false; return handleError(result).
NoidleRead(i, resp) ==
  /\ calls[i].pc = "n_read"
  /\ conns' = Did(calls[i].conn, "read", "")
  /\ idling' = FALSE
  /\ calls' = [calls EXCEPT ![i] =
       LET h == handleError(decodeBuffer(resp)) IN
       [@ EXCEPT !.pc = "done", !.resp = resp,
                 !.promise = IF h.threw THEN "rejected" ELSE "resolved",
                 !.err = h.name, !.value = h.value]]
  /\ UNCHANGED <<notS>>

\* The transport call a method awaits rejects (connect, write, read or
\* readAll): the exception leaves the method; a dropped sendCommand promise
\* rejects unobserved.
Fail(i) ==
  /\ calls[i].pc \notin {"done", "failed"}
  /\ calls' = [calls EXCEPT ![i] =
       IF @.method \in DroppedMethods
       THEN [@ EXCEPT !.pc = "failed"]
       ELSE [@ EXCEPT !.pc = "failed", !.promise = "rejected",
                      !.err = "TransportError", !.value = TransportFault]]
  /\ UNCHANGED <<idling, conns, notS>>

Next ==
  \/ SetIdling
  \/ \E m \in Methods : Call(m)
  \/ \E i \in DOMAIN calls : ConnectCancel(i)
  \/ \E i \in DOMAIN calls : WriteCancel(i)
  \/ \E i \in DOMAIN calls : ReadCancel(i)
  \/ \E i \in DOMAIN calls : Connect(i)
  \/ \E i \in DOMAIN calls : Write(i)
  \/ \E i \in DOMAIN calls : \E resp \in Responses : ReadAll(i, resp)
  \/ \E i \in DOMAIN calls : \E resp \in Responses : IdleReadAll(i, resp)
  \/ \E i \in DOMAIN calls : \E resp \in Responses : NoidleRead(i, resp)
  \/ \E i \in DOMAIN calls : Fail(i)

Spec == Init /\ [][Next]_vars

(***************************************************************************)
(* The first client: src/mpd.ts (class MPD) and src/main.ts (MPDClient)    *)
(***************************************************************************)

NotConnected == <<"Not connected to MPD">>
NullConn == <<"TypeError: this.conn is null">>

\* MPD methods and MPDClient methods that make one sendMessage call.
LegacyOneShot ==
  {"sendMessage", "currentSong", "status", "stats", "find", "list",
   "pause", "queue", "clearQueue", "addToQueue", "addAlbumToQueue"}
LegacyMethods == LegacyOneShot \cup {"info", "idle"}

\* MPDClient.info awaits currentSong, status and stats in turn.
InfoStages == <<"currentSong", "status", "stats">>

\* The MPD method whose code runs at the call's present stage.
LegacyRunning(c) == IF c.method = "info" THEN InfoStages[c.stage] ELSE c.method

LegacyMsg(m) ==
  CASE m = "sendMessage" -> "custom message"
    [] m = "currentSong" -> "currentsong"
    [] m = "status" -> "status"
    [] m = "stats" -> "stats"
    [] m = "find" -> "find \"(track == 'a')\""
    [] m = "list" -> "list album \"(artist == 'a')\""
    [] m = "pause" -> "pause"
    [] m = "queue" -> "playlistinfo"
    [] m = "clearQueue" -> "clear"
    [] m = "addToQueue" -> "add \"a\""
    [] m = "addAlbumToQueue" -> "findadd \"(album == 'a')\""

\* A sendMessage begins: assert(this.conn, "Not connected to MPD"), then
\* conn.write is awaited.
LegacyBegin(c) ==
  IF lconn = "null"
  THEN [c EXCEPT !.pc = "failed", !.promise = "rejected",
                 !.err = "AssertionError", !.value = NotConnected]
  ELSE [c EXCEPT !.pc = "write"]

NewLegacyCall(m) ==
  [ method |-> m, stage |-> 1, pc |-> "start", promise |-> "pending",
    err |-> "", value |-> Undefined, connAtCall |-> lconn, io |-> 0,
    worker |-> FALSE ]

\* The caller awaits each call before it makes the next.
LegacyCallerReady == \A i \in DOMAIN lcalls : lcalls[i].promise # "pending"

\* A sendMessage-based method is invoked.
LegacyCall(m) ==
  /\ Len(lcalls) < MaxLegacyCalls
  /\ LegacyCallerReady
  /\ lcalls' = Append(lcalls, LegacyBegin(NewLegacyCall(m)))
  /\ UNCHANGED <<lconn, lidling, lworkers, llog, notL>>

\* MPD.idle: starts a worker with host and port unless already idling; the
\* async method returns.
LegacyIdle ==
  /\ Len(lcalls) < MaxLegacyCalls
  /\ LegacyCallerReady
  /\ lcalls' = Append(lcalls,
       [NewLegacyCall("idle") EXCEPT !.pc = "done", !.promise = "resolved",
                                     !.worker = ~lidling])
  /\ lworkers' = IF lidling THEN lworkers ELSE lworkers + 1
  /\ lidling' = TRUE
  /\ UNCHANGED <<lconn, llog, notL>>

\* worker.onmessage
LegacyWorkerMessage ==
  /\ lworkers > 0
  /\ lidling
  /\ lidling' = FALSE
  /\ UNCHANGED <<lconn, lworkers, lcalls, llog, notL>>

\* sendMessage: await this.conn.write(..) resolves; this.conn.readAll() is
\* called on what this.conn is now.
LegacyWrite(i) ==
  /\ lcalls[i].pc = "write"
  /\ llog' = Append(llog, "write " \o LegacyMsg(LegacyRunning(lcalls[i])))
  /\ lcalls' = [lcalls EXCEPT ![i] =
       IF lconn = "null"
       THEN [@ EXCEPT !.pc = "failed", !.promise = "rejected", !.io = @ + 1,
                      !.err = "TypeError", !.value = NullConn]
       ELSE [@ EXCEPT !.pc = "readAll", !.io = @ + 1]]
  /\ UNCHANGED <<lconn, lidling, lworkers, notL>>

\* What the method does with the text sendMessage returned.
LegacySettle(c, resp) ==
  IF LegacyRunning(c) \in {"status", "stats"} /\ StartsWith(resp, <<"A", "C", "K">>)
  THEN [c EXCEPT !.pc = "failed", !.promise = "rejected", !.value = resp,
                 !.err = IF LegacyRunning(c) = "status" THEN "ACKError" ELSE "Error"]
  ELSE IF c.method = "info" /\ c.stage < Len(InfoStages)
  THEN LegacyBegin([c EXCEPT !.stage = @ + 1])
  ELSE [c EXCEPT !.pc = "done", !.promise = "resolved"]

\* sendMessage: the promise of readAll() resolves.
LegacyReadAll(i, resp) ==
  /\ lcalls[i].pc = "readAll"
  /\ llog' = Append(llog, "readAll")
  /\ lcalls' = [lcalls EXCEPT ![i] = LegacySettle([@ EXCEPT !.io = @ + 1], resp)]
  /\ UNCHANGED <<lconn, lidling, lworkers, notL>>

\* conn.write or readAll rejects.
LegacyFail(i) ==
  /\ lcalls[i].pc \in {"write", "readAll"}
  /\ lcalls' = [lcalls EXCEPT ![i] =
       [@ EXCEPT !.pc = "failed", !.promise = "rejected", !.io = @ + 1,
                 !.err = "TransportError", !.value = TransportFault]]
  /\ UNCHANGED <<lconn, lidling, lworkers, llog, notL>>

\* MPDClient.disconnect
disconnect ==
  /\ lconn # "null"
  /\ llog' = Append(llog, "close")
  /\ lconn' = "null"
  /\ UNCHANGED <<lidling, lworkers, lcalls, notL>>

LegacyNext ==
  \/ \E m \in LegacyMethods \ {"idle"} : LegacyCall(m)
  \/ LegacyIdle
  \/ LegacyWorkerMessage
  \/ \E i \in DOMAIN lcalls : LegacyWrite(i)
  \/ \E i \in DOMAIN lcalls : \E resp \in Responses : LegacyReadAll(i, resp)
  \/ \E i \in DOMAIN lcalls : LegacyFail(i)
  \/ disconnect

LegacySpec == Init /\ [][LegacyNext]_vars

(***************************************************************************)
(* The response framer: getResponse behind TCPClient.readAll               *)
(***************************************************************************)

\* endsWith and includesNeedle of @std/bytes
EndsWith(s, p) ==
  Len(s) >= Len(p) /\ SubSeq(s, Len(s) - Len(p) + 1, Len(s)) = p
IncludesNeedle(s, p) ==
  \E k \in 1..(Len(s) - Len(p) + 1) : SubSeq(s, k, k + Len(p) - 1) = p

\* The two terminators, "OK\n" and "ACK ".
MSG_END_BIN == << <<"O", "K", "\n">>, <<"A", "C", "K", " ">> >>

\* The size of the buffer conn.read fills.
FramerBufSize == 512

ConnectionClosed == <<"Connection closed by server">>

\* What the peer may send before it falls silent: complete responses (a bare
\* OK, a field and OK, an error, a field whose value ends in "OK", a field
\* whose value holds "ACK ") and responses the peer breaks off.
StreamOK == <<"O", "K", "\n">>
StreamField == <<"a", "\n", "O", "K", "\n">>
StreamAck == <<"A", "C", "K", " ", "e", "\n">>
StreamValueOK == <<"t", "O", "K", "\n", "O", "K", "\n">>
StreamValueAck == <<"t", "A", "C", "K", " ", "\n", "O", "K", "\n">>
StreamCut == <<"a", "\n">>
StreamNone == <<>>
Streams ==
  {StreamOK, StreamField, StreamAck, StreamValueOK, StreamValueAck, StreamCut,
   StreamNone}

\* readAll is called on a connection: getResponse starts with empty data.
FramerInit ==
  /\ SessionInit
  /\ LegacyInit
  /\ QueueRest
  /\ CommandListRest
  /\ CommandRest
  /\ BinaryRest
  /\ FilterRest
  /\ ParseRest
  /\ fstream \in Streams
  /\ fpos = 0
  /\ fdata = <<>>
  /\ fcontent = <<>>
  /\ fpc = "reading"
  /\ feof = FALSE
  /\ fret = <<>>
  /\ ferr = <<>>

\* The loop's exit test on the chunk just read.
FramerStops(content) ==
  EndsWith(content, MSG_END_BIN[1]) \/ IncludesNeedle(content, MSG_END_BIN[2])

\* One iteration of the loop: conn.read(buf) resolves with n bytes, which
\* are appended to data; the loop ends when the chunk ends with "OK\n" or
\* holds "ACK ", and getResponse returns data.
FramerRead(n) ==
  /\ fpc = "reading"
  /\ n >= 1
  /\ n <= FramerBufSize
  /\ fpos + n <= Len(fstream)
  /\ LET content == SubSeq(fstream, fpos + 1, fpos + n)
         data == fdata \o content
     IN /\ fcontent' = content
        /\ fdata' = data
        /\ fpos' = fpos + n
        /\ fpc' = IF FramerStops(content) THEN "returned" ELSE "reading"
        /\ fret' = IF FramerStops(content) THEN data ELSE fret
  /\ UNCHANGED <<fstream, feof, ferr, notF>>

\* getResponse of the reader-based transport: end-of-stream ends the loop and
\* the data read so far is returned.
FramerEOFReturns ==
  /\ fpc = "reading"
  /\ fpos = Len(fstream)
  /\ feof' = TRUE
  /\ fpc' = "returned"
  /\ fret' = fdata
  /\ UNCHANGED <<fstream, fpos, fdata, fcontent, ferr, notF>>

\* The peer has closed the connection: conn.read(buf) resolves with null and
\* getResponse throws.
FramerEOF ==
  /\ fpc = "reading"
  /\ fpos = Len(fstream)
  /\ feof' = TRUE
  /\ fpc' = "threw"
  /\ ferr' = ConnectionClosed
  /\ UNCHANGED <<fstream, fpos, fdata, fcontent, fret, notF>>

FramerNext ==
  \/ \E n \in 1..Len(fstream) : FramerRead(n)
  \/ FramerEOF

FramerSpec == FramerInit /\ [][FramerNext]_vars

(***************************************************************************)
(* Text and byte operations of the runtime                                 *)
(***************************************************************************)

\* indexOfNeedle of @std/bytes, String.prototype.indexOf: the 0-based index
\* of the first occurrence of p in s at or after start (start >= 0), or -1.
indexOfNeedle(s, p, start) ==
  LET hits == { k \in start..(Len(s) - Len(p)) : SubSeq(s, k + 1, k + Len(p)) = p }
  IN IF hits = {} THEN -1 ELSE CHOOSE k \in hits : \A j \in hits : k <= j

\* Uint8Array.prototype.slice(from, to) with 0 <= from.
slice(s, from, to) ==
  SubSeq(s, from + 1, IF to < Len(s) THEN to ELSE Len(s))

\* String.prototype.split(sep) with a non-empty separator.
RECURSIVE split(_, _)
split(s, sep) ==
  LET k == indexOfNeedle(s, sep, 0)
  IN IF k = -1 THEN <<s>>
     ELSE <<SubSeq(s, 1, k)>> \o split(SubSeq(s, k + Len(sep) + 1, Len(s)), sep)

\* join putting each later part in front.
RECURSIVE joinReversed(_, _)
joinReversed(parts, sep) ==
  IF parts = <<>> THEN <<>>
  ELSE IF Len(parts) = 1 THEN parts[1]
  ELSE joinReversed(Tail(parts), sep) \o sep \o parts[1]

\* Array.prototype.join(sep)
RECURSIVE join(_, _)
join(parts, sep) ==
  IF parts = <<>> THEN <<>>
  ELSE IF Len(parts) = 1 THEN parts[1]
  ELSE parts[1] \o sep \o join(Tail(parts), sep)

WhiteSpace == {" ", "\n", "\t", "\r"}

RECURSIVE trimStart(_)
trimStart(s) ==
  IF s # <<>> /\ s[1] \in WhiteSpace THEN trimStart(Tail(s)) ELSE s

RECURSIVE trimEnd(_)
trimEnd(s) ==
  IF s # <<>> /\ s[Len(s)] \in WhiteSpace
  THEN trimEnd(SubSeq(s, 1, Len(s) - 1)) ELSE s

\* String.prototype.trim
trim(s) == trimEnd(trimStart(s))

\* Numbers: NaN, or an integer.
NaN == [nan |-> TRUE, n |-> 0]
Num(n) == [nan |-> FALSE, n |-> n]

DecimalDigits == <<"0", "1", "2", "3", "4", "5", "6", "7", "8", "9">>
IsDigit(c) == \E d \in DOMAIN DecimalDigits : DecimalDigits[d] = c
DigitValue(c) == (CHOOSE d \in DOMAIN DecimalDigits : DecimalDigits[d] = c) - 1

\* The value of a run of decimal digits.
RECURSIVE DigitsValue(_)
DigitsValue(ds) ==
  IF ds = <<>> THEN 0
  ELSE 10 * DigitsValue(SubSeq(ds, 1, Len(ds) - 1)) + DigitValue(ds[Len(ds)])

\* The leading run of decimal digits of s.
RECURSIVE LeadingDigits(_)
LeadingDigits(s) ==
  IF s # <<>> /\ IsDigit(s[1]) THEN <<s[1]>> \o LeadingDigits(Tail(s)) ELSE <<>>

\* parseInt(v, 10): leading white space is skipped, then an optional sign and
\* the longest run of digits are read; NaN when there is no digit (undefined
\* included).
parseInt(v) ==
  IF v = Undefined THEN NaN
  ELSE LET t == trimStart(v)
           signed == t # <<>> /\ t[1] \in {"-", "+"}
           ds == LeadingDigits(IF signed THEN Tail(t) ELSE t)
       IN IF ds = <<>> THEN NaN
          ELSE IF signed /\ t[1] = "-" THEN Num(0 - DigitsValue(ds))
          ELSE Num(DigitsValue(ds))

\* The decimal digits of n >= 0, as `${n}` renders them.
RECURSIVE ToDigits(_)
ToDigits(n) ==
  IF n < 10 THEN <<DecimalDigits[n + 1]>>
  ELSE ToDigits(n \div 10) \o <<DecimalDigits[(n % 10) + 1]>>

\* a >= b on numbers: false when either is NaN.
GreaterEq(a, b) == ~a.nan /\ ~b.nan /\ a.n >= b.n

\* v is falsy (undefined or the empty string).
Falsy(v) == v = Undefined \/ v = <<>>

\* concat putting each later chunk in front.
RECURSIVE concatReversed(_)
concatReversed(chunks) ==
  IF chunks = <<>> THEN <<>> ELSE concatReversed(Tail(chunks)) \o chunks[1]

\* concat of @std/bytes
RECURSIVE concat(_)
concat(chunks) ==
  IF chunks = <<>> THEN <<>> ELSE chunks[1] \o concat(Tail(chunks))

(***************************************************************************)
(* Binary responses: handleBinaryResponse and MPD.sendCommandBinary        *)
(***************************************************************************)

\* Bounds of the binary model.
MaxFileSize == 3
MaxChunk == 2
MaxRequests == 4

NL == <<"\n">>
ColonSpace == <<":", " ">>
BinaryKey == <<"b", "i", "n", "a", "r", "y">>
SizeKey == <<"s", "i", "z", "e">>
TypeKey == <<"t", "y", "p", "e">>
BinaryMarker == BinaryKey \o ColonSpace

NoBinaryHeader == <<"Invalid response format: no binary header section.">>
NoHeaderSection == <<"Invalid response format: no header section.">>
InvalidBinarySize == <<"Invalid binary size in response.">>

\* parseHeaders keeps a line when its key is not empty and ": " occurs in it.
IsHeaderLine(line) ==
  LET parts == split(line, ColonSpace) IN parts[1] # <<>> /\ Len(parts) > 1

\* parseHeaders: the (key, value) pairs of the lines kept, in order.
parseHeaders(headerText) ==
  LET kept == SelectSeq(split(headerText, NL), IsHeaderLine)
  IN [ k \in DOMAIN kept |->
         LET parts == split(kept[k], ColonSpace)
         IN <<trim(parts[1]), trim(join(Tail(parts), ColonSpace))>> ]

\* headers[key]: the value assigned last, or undefined.
HeaderValue(headers, key) ==
  LET hits == { k \in DOMAIN headers : headers[k][1] = key }
  IN IF hits = {} THEN Undefined
     ELSE headers[CHOOSE k \in hits : \A j \in hits : j <= k][2]

BinaryThrown(msg) ==
  [ threw |-> TRUE, err |-> msg, binary |-> <<>>,
    headers |-> [binarySize |-> NaN, size |-> NaN, type |-> Undefined] ]

\* handleBinaryResponse taking a response without the marker, or without a
\* newline after it, for an empty chunk of an empty file.
handleBinaryResponseLenient(response) ==
  [ threw |-> FALSE, err |-> <<>>, binary |-> <<>>,
    headers |-> [binarySize |-> Num(0), size |-> Num(0), type |-> Undefined] ]

\* handleBinaryResponse
handleBinaryResponse(response) ==
  LET binaryMatch == indexOfNeedle(response, BinaryMarker, 0) IN
  IF binaryMatch = -1 THEN BinaryThrown(NoBinaryHeader)
  ELSE
    LET headerEndIndex == indexOfNeedle(response, NL, binaryMatch) IN
    IF headerEndIndex = -1 THEN BinaryThrown(NoHeaderSection)
    ELSE
      LET binaryStartIndex == headerEndIndex + 1
          headers == parseHeaders(slice(response, 0, binaryStartIndex))
          hb == HeaderValue(headers, BinaryKey)
          hs == HeaderValue(headers, SizeKey)
          size == parseInt(IF ~Falsy(hb) THEN hb
                           ELSE IF ~Falsy(hs) THEN hs ELSE <<"0">>)
      IN IF size.nan THEN BinaryThrown(InvalidBinarySize)
         ELSE [ threw |-> FALSE, err |-> <<>>,
                binary |-> slice(response, binaryStartIndex,
                                 binaryStartIndex + size.n),
                headers |-> [ binarySize |-> size,
                              size |-> parseInt(hs),
                              type |-> HeaderValue(headers, TypeKey) ] ]

\* The files the daemon may serve: the first S of these bytes.
FileBytes == <<"p", "\n", "q", "r", "s">>
FileOf(S) == [k \in 1..S |-> FileBytes[((k - 1) % Len(FileBytes)) + 1]]
Files == { FileOf(S) : S \in 0..MaxFileSize }

\* The `offset` argument.
StartOffsets == {0, 1}

HeaderLine(key, value) == key \o ColonSpace \o value \o NL
ChunkTrailer == <<"\n", "O", "K", "\n">>

\* The daemon's response to a request at offset o: n bytes of the file.
ChunkReply(o, n) ==
  LET payload == SubSeq(bfile, o + 1, o + n) IN
  [ kind |-> "chunk", size |-> Num(Len(bfile)), binary |-> n,
    payload |-> payload,
    bytes |-> HeaderLine(SizeKey, ToDigits(Len(bfile)))
                \o HeaderLine(BinaryKey, ToDigits(n)) \o payload \o ChunkTrailer ]

\* Responses that are not well formed: no "binary: " marker; no newline after
\* the marker; no size header; a size header that is no number.
NoMarkerReply ==
  [ kind |-> "nomarker", size |-> NaN, binary |-> 0, payload |-> <<>>,
    bytes |-> <<"O", "K", "\n">> ]
NoNewlineReply ==
  [ kind |-> "nonewline", size |-> Num(1), binary |-> 1, payload |-> <<>>,
    bytes |-> HeaderLine(SizeKey, <<"1">>) \o BinaryMarker \o <<"1">> ]
NoSizeReply ==
  [ kind |-> "nosize", size |-> NaN, binary |-> 1, payload |-> <<"z">>,
    bytes |-> HeaderLine(BinaryKey, <<"1">>) \o <<"z">> \o ChunkTrailer ]
BadSizeReply ==
  [ kind |-> "badsize", size |-> NaN, binary |-> 1, payload |-> <<"z">>,
    bytes |-> HeaderLine(SizeKey, <<"x">>) \o HeaderLine(BinaryKey, <<"1">>)
                \o <<"z">> \o ChunkTrailer ]
MalformedReplies == {NoMarkerReply, NoNewlineReply, NoSizeReply, BadSizeReply}

\* What the daemon may answer to a request at offset o.
Replies(o) ==
  LET left == Len(bfile) - o
      most == IF left < 0 THEN 0 ELSE IF left < MaxChunk THEN left ELSE MaxChunk
  IN { ChunkReply(o, n) : n \in 0..most } \cup MalformedReplies

\* The request line of a chunk.
BinaryRequest(off) == "albumart a " \o ToString(off) \o "\n"

\* sendCommandBinary(message, offset) is called.
BinaryInit ==
  /\ idling \in BOOLEAN
  /\ conns = <<>>
  /\ calls = <<>>
  /\ LegacyInit
  /\ QueueRest
  /\ CommandListRest
  /\ CommandRest
  /\ FramerRest
  /\ FilterRest
  /\ ParseRest
  /\ bfile \in Files
  /\ bpc = "connect"
  /\ boff \in StartOffsets
  /\ bchunks = <<>>
  /\ breqs = <<>>
  /\ bops = <<>>
  /\ bsent = <<>>
  /\ bresult = <<>>
  /\ berr = <<>>

\* await this.#conn.connect(..) resolves; `if (this.idling)`.
BinaryConnect ==
  /\ bpc = "connect"
  /\ bpc' = IF idling THEN "nc_write" ELSE "write"
  /\ UNCHANGED <<bfile, boff, bchunks, breqs, bops, bsent, bresult, berr, notB>>

\* await connection.write("noidle\n")
BinaryWriteCancel ==
  /\ bpc = "nc_write"
  /\ bops' = Append(bops, Op("write", NoidleLine))
  /\ bpc' = "nc_read"
  /\ UNCHANGED <<bfile, boff, bchunks, breqs, bsent, bresult, berr, notB>>

\* The cancellation step going on to the first chunk request without the
\* read.
BinaryReadCancelSkipped ==
  /\ bpc = "nc_read"
  /\ bpc' = "write"
  /\ UNCHANGED <<bfile, boff, bchunks, breqs, bops, bsent, bresult, berr, notB>>

\* await connection.read(noidleBuffer)
BinaryReadCancel ==
  /\ bpc = "nc_read"
  /\ bops' = Append(bops, Op("read", ""))
  /\ bpc' = "write"
  /\ UNCHANGED <<bfile, boff, bchunks, breqs, bsent, bresult, berr, notB>>

\* await connection.write(`${message} ${off}\n`)
BinaryWrite ==
  /\ bpc = "write"
  /\ Len(breqs) < MaxRequests
  /\ bops' = Append(bops, Op("write", BinaryRequest(boff)))
  /\ breqs' = Append(breqs, boff)
  /\ bpc' = "readAll"
  /\ UNCHANGED <<bfile, boff, bchunks, bsent, bresult, berr, notB>>

\* await connection.readAll(true) resolves with the daemon's response; the
\* rest of the loop body runs, and the return when the loop is left.
BinaryReadAll(reply) ==
  /\ bpc = "readAll"
  /\ bops' = Append(bops, Op("readAll", ""))
  /\ bsent' = Append(bsent, reply)
  /\ LET res == handleBinaryResponse(reply.bytes) IN
     IF res.threw
     THEN /\ bpc' = "failed"
          /\ berr' = res.err
          /\ UNCHANGED <<boff, bchunks, bresult>>
     ELSE LET chunks == Append(bchunks, res.binary)
              off == boff + res.headers.binarySize.n
          IN /\ bchunks' = chunks
             /\ boff' = off
             /\ berr' = berr
             /\ IF GreaterEq(Num(off), res.headers.size)
                THEN /\ bpc' = "done"
                     /\ bresult' = << [ meta |-> [ size |-> res.headers.size,
                                                   type |-> res.headers.type ],
                                        binary |-> concat(chunks) ] >>
                ELSE /\ bpc' = "write"
                     /\ bresult' = bresult
  /\ UNCHANGED <<bfile, breqs, notB>>

BinaryNext ==
  \/ BinaryConnect
  \/ BinaryWriteCancel
  \/ BinaryReadCancel
  \/ BinaryWrite
  \/ \E reply \in Replies(boff) : BinaryReadAll(reply)

BinarySpec == BinaryInit /\ [][BinaryNext]_vars

(***************************************************************************)
(* The filter compiler: createFilter                                       *)
(***************************************************************************)

\* Bounds of the filter model.
MaxFilterLen == 3
MaxListLen == 2

\* A filter argument: absent, a string, a Filter object or a list of Filter
\* objects. A compare of <<>> is an omitted compare.
Filter(kind, str, tag, value, compare, items) ==
  [ kind |-> kind, s |-> str, tag |-> tag, value |-> value,
    compare |-> compare, items |-> items ]
AbsentFilter == Filter("absent", <<>>, <<>>, <<>>, <<>>, <<>>)
StringFilter(str) == Filter("string", str, <<>>, <<>>, <<>>, <<>>)
ObjectFilter(tag, value, compare) ==
  Filter("object", <<>>, tag, value, compare, <<>>)
ListFilter(items) == Filter("list", <<>>, <<>>, <<>>, <<>>, items)

DoubleQuote == "\""
SingleQuote == "'"

\* The characters of the string filters tried.
FilterChars == {"a", " ", DoubleQuote, SingleQuote}
FilterStrings == UNION { [1..k -> FilterChars] : k \in 0..MaxFilterLen }

AlbumTag == <<"a", "l", "b", "u", "m">>
ArtistTag == <<"a", "r", "t", "i", "s", "t">>
FilterTags == {AlbumTag, ArtistTag}
FilterValues == { <<"a">>, <<SingleQuote, "b", SingleQuote>> }
DefaultCompare == <<"=", "=">>
FilterCompares == { <<>>, <<"!", "=">> }
FilterObjects ==
  { ObjectFilter(t, v, c) : t \in FilterTags, v \in FilterValues,
                             c \in FilterCompares }
FilterLists ==
  { ListFilter(items) :
      items \in UNION { [1..k -> FilterObjects] : k \in 0..MaxListLen } }

FilterInputs ==
  {AbsentFilter} \cup { StringFilter(str) : str \in FilterStrings }
    \cup FilterObjects \cup FilterLists

\* handleQuotes that wraps the value whatever its ends are.
handleQuotesAlways(value, single) ==
  LET quot == IF single THEN <<SingleQuote>> ELSE <<DoubleQuote>>
  IN quot \o value \o quot

\* handleQuotes: the value is wrapped in the quote unless it starts or ends
\* with it.
handleQuotes(value, single) ==
  LET quot == IF single THEN <<SingleQuote>> ELSE <<DoubleQuote>>
  IN IF ~StartsWith(value, quot) /\ ~EndsWith(value, quot)
     THEN quot \o value \o quot
     ELSE value

\* createFilter
RECURSIVE createFilter(_)
createFilter(filter) ==
  IF filter.kind = "absent" \/ (filter.kind = "string" /\ filter.s = <<>>)
  THEN <<>>
  ELSE IF filter.kind = "string" THEN handleQuotes(filter.s, FALSE)
  ELSE IF filter.kind = "list"
  THEN join([k \in DOMAIN filter.items |-> createFilter(filter.items[k])],
            <<" ">>)
  ELSE LET comp == IF filter.compare = <<>> THEN DefaultCompare
                   ELSE filter.compare
       IN handleQuotes(<<"(">> \o filter.tag \o <<" ">> \o comp \o <<" ">>
                         \o handleQuotes(filter.value, TRUE) \o <<")">>,
                       FALSE)

\* createFilter is about to be called with one of the inputs.
FilterInit ==
  /\ SessionInit
  /\ LegacyInit
  /\ QueueRest
  /\ CommandListRest
  /\ CommandRest
  /\ FramerRest
  /\ BinaryRest
  /\ ParseRest
  /\ cfin \in FilterInputs
  /\ cfpc = "start"
  /\ cfout = <<>>
  /\ cfagain = <<>>

\* createFilter(cfin)
Compile ==
  /\ cfpc = "start"
  /\ cfout' = createFilter(cfin)
  /\ cfpc' = "compiled"
  /\ UNCHANGED <<cfin, cfagain, notC>>

\* createFilter applied to the string it returned.
Recompile ==
  /\ cfpc = "compiled"
  /\ cfagain' = createFilter(StringFilter(cfout))
  /\ cfpc' = "recompiled"
  /\ UNCHANGED <<cfin, cfout, notC>>

FilterNext ==
  \/ Compile
  \/ Recompile

FilterSpec == FilterInit /\ [][FilterNext]_vars

(***************************************************************************)
(* The response parsers of src/main.ts                                     *)
(***************************************************************************)

\* Bound of the parser model: the number of lines of a response.
MaxLines == 4

UpperLetters ==
  <<"A", "B", "C", "D", "E", "F", "G", "H", "I", "J", "K", "L", "M",
    "N", "O", "P", "Q", "R", "S", "T", "U", "V", "W", "X", "Y", "Z">>
LowerLetters ==
  <<"a", "b", "c", "d", "e", "f", "g", "h", "i", "j", "k", "l", "m",
    "n", "o", "p", "q", "r", "s", "t", "u", "v", "w", "x", "y", "z">>

\* String.prototype.toLowerCase that changes nothing.
toLowerCaseNone(str) == str

\* String.prototype.toLowerCase
toLowerCase(str) ==
  [ k \in DOMAIN str |->
      IF \E u \in DOMAIN UpperLetters : UpperLetters[u] = str[k]
      THEN LowerLetters[CHOOSE u \in DOMAIN UpperLetters : UpperLetters[u] = str[k]]
      ELSE str[k] ]

\* String.prototype.includes
includes(str, part) == indexOfNeedle(str, part, 0) # -1

\* String.prototype.substring(from, to) with 0 <= from <= to.
substring(str, from, to) == SubSeq(str, from + 1, to)

\* getKeyVal: the line is cut at its first ":"; both parts are trimmed.
getKeyVal(line) ==
  LET separatorIndex == indexOfNeedle(line, <<":">>, 0)
  IN << trim(substring(line, 0, separatorIndex)),
        trim(substring(line, separatorIndex + 1, Len(line))) >>

\* A line of a response: a "key: value" line (kv) with its key and value, or
\* another line; text is what the daemon sends.
FieldLine(key, value) ==
  [ kv |-> TRUE, key |-> key, value |-> value,
    text |-> key \o ColonSpace \o value ]
OtherLine(text) == [ kv |-> FALSE, key |-> <<>>, value |-> <<>>, text |-> text ]

FileKey == <<"f", "i", "l", "e">>
FileKeyCapital == <<"F", "i", "l", "e">>
IdKey == <<"I", "d">>
ResponseLines ==
  { FieldLine(FileKey, <<"a">>), FieldLine(FileKeyCapital, <<"b">>),
    FieldLine(IdKey, <<"1">>), FieldLine(IdKey, <<"2">>),
    OtherLine(<<>>), OtherLine(<<"O", "K">>) }

\* The responses parsed: up to MaxLines lines.
ResponseTexts == UNION { [1..k -> ResponseLines] : k \in 0..MaxLines }

\* The text of a response: its lines, each ended by a newline.
ResponseText(lines) ==
  concat([k \in DOMAIN lines |-> lines[k].text \o NL])

\* The separatorTag argument: omitted, or a key.
SeparatorTags == {Undefined, FileKey, IdKey}

\* A field of a record: a string value, or an array of them.
StringField(key, value) == [key |-> key, isArray |-> FALSE, values |-> <<value>>]

\* `key in last`
HasField(record, key) == \E k \in DOMAIN record : record[k].key = key

\* The non-separator branch putting the earlier values of a repeated key
\* into the new array as one element.
AddToLastNested(result, key, value) ==
  LET last == result[Len(result)]
      updated ==
        IF HasField(last, key)
        THEN [ k \in DOMAIN last |->
                 IF last[k].key = key
                 THEN [ last[k] EXCEPT
                          !.isArray = TRUE,
                          !.values = IF last[k].isArray THEN <<@, value>>
                                     ELSE <<@[1], value>> ]
                 ELSE last[k] ]
        ELSE Append(last, StringField(key, value))
  IN [result EXCEPT ![Len(result)] = updated]

\* parseUnknownList: the non-separator branch, for a list that is not empty.
\* A key the record has holds [...prev, value] when prev is an array and
\* [prev, value] when it is a string.
AddToLast(result, key, value) ==
  LET last == result[Len(result)]
      updated ==
        IF HasField(last, key)
        THEN [ k \in DOMAIN last |->
                 IF last[k].key = key
                 THEN [ last[k] EXCEPT
                          !.isArray = TRUE,
                          !.values = IF last[k].isArray THEN @ \o <<value>>
                                     ELSE <<@[1], value>> ]
                 ELSE last[k] ]
        ELSE Append(last, StringField(key, value))
  IN [result EXCEPT ![Len(result)] = updated]

\* parseUnknownList: the callback of forEach on line i (counted from 0) of
\* the lines kept.
parseUnknownListStep(acc, line, i, separatorTag) ==
  LET key == getKeyVal(line)[1]
      value == getKeyVal(line)[2]
      separator == IF Falsy(separatorTag) /\ i = 0 THEN key ELSE acc.separator
  IN IF toLowerCase(key) = toLowerCase(separator)
     THEN [ separator |-> separator,
            result |-> Append(acc.result, << StringField(key, value) >>) ]
     ELSE IF acc.result = <<>>
     THEN [ separator |-> separator, result |-> acc.result ]
     ELSE [ separator |-> separator,
            result |-> AddToLast(acc.result, key, value) ]

RECURSIVE parseUnknownListFrom(_, _, _, _)
parseUnknownListFrom(acc, kept, i, separatorTag) ==
  IF i >= Len(kept) THEN acc.result
  ELSE parseUnknownListFrom(
         parseUnknownListStep(acc, kept[i + 1], i, separatorTag),
         kept, i + 1, separatorTag)

IsKeyValueLine(line) == includes(line, ColonSpace)

\* parseUnknownList
parseUnknownList(input, separatorTag) ==
  parseUnknownListFrom(
    [ separator |-> IF Falsy(separatorTag) THEN <<>> ELSE separatorTag,
      result |-> <<>> ],
    SelectSeq(split(input, NL), IsKeyValueLine), 0, separatorTag)

\* parseUnknownGroup appending the key of a line where the code appends its
\* value.
parseUnknownGroupStepKeys(res, line, groupBy) ==
  LET key == getKeyVal(line)[1]
      value == getKeyVal(line)[2]
  IN IF toLowerCase(key) = toLowerCase(groupBy)
     THEN Append(res, [group |-> value, values |-> <<>>])
     ELSE IF res = <<>> THEN res
     ELSE [res EXCEPT ![Len(res)].values = Append(@, key)]

\* parseUnknownGroup: the callback of forEach on one of the lines kept.
parseUnknownGroupStep(res, line, groupBy) ==
  LET key == getKeyVal(line)[1]
      value == getKeyVal(line)[2]
  IN IF toLowerCase(key) = toLowerCase(groupBy)
     THEN Append(res, [group |-> value, values |-> <<>>])
     ELSE IF res = <<>> THEN res
     ELSE [res EXCEPT ![Len(res)].values = Append(@, value)]

RECURSIVE parseUnknownGroupFrom(_, _, _)
parseUnknownGroupFrom(res, kept, groupBy) ==
  IF kept = <<>> THEN res
  ELSE parseUnknownGroupFrom(parseUnknownGroupStep(res, kept[1], groupBy),
                             Tail(kept), groupBy)

\* parseUnknownGroup
parseUnknownGroup(input, groupBy) ==
  parseUnknownGroupFrom(<<>>, SelectSeq(split(input, NL), IsKeyValueLine),
                        groupBy)

\* The lines of a song's description: a title, a title holding ": ", two
\* genres, a key that TrackTransform does not know, and the final OK.
TitleKey == <<"T", "i", "t", "l", "e">>
GenreKey == <<"G", "e", "n", "r", "e">>
UnknownKey == <<"X">>
PosKey == <<"P", "o", "s">>
TrackLines ==
  { FieldLine(TitleKey, <<"a">>),
    FieldLine(TitleKey, <<"a", ":", " ", "b">>),
    FieldLine(GenreKey, <<"x">>), FieldLine(GenreKey, <<"y">>),
    FieldLine(UnknownKey, <<"u", ":", " ", "v">>),
    OtherLine(<<"O", "K">>) }
TrackTexts == UNION { [1..k -> TrackLines] : k \in 0..MaxLines }

\* A value of a parsed record: a string, or an array of values.
StringValue(str) == [type |-> "string", str |-> str, items |-> <<>>]
ArrayValue(items) == [type |-> "array", str |-> <<>>, items |-> items]
NumberValue(num) == [type |-> "number", str |-> <<>>, items |-> <<num>>]

\* Number(value): the number a string of decimal digits denotes, 0 for a
\* string of white space, NaN for another string.
Number(value) ==
  IF trim(value) = <<>> THEN Num(0)
  ELSE IF LeadingDigits(trim(value)) = trim(value)
  THEN Num(DigitsValue(trim(value)))
  ELSE NaN

\* TrackTransform, for the keys of TrackLines: the coercion of a key, or
\* "none" for a key that is not in the table.
TrackTransform(key) ==
  IF key = TitleKey THEN "String"
  ELSE IF key = GenreKey THEN "Array"
  ELSE IF key = PosKey THEN "Number"
  ELSE "none"

\* transform(value): String(value) is the string, Array(value) an array
\* holding it.
Transform(kind, value) ==
  IF kind = "Array" THEN ArrayValue(<<StringValue(value)>>)
  ELSE IF kind = "Number" THEN NumberValue(Number(value))
  ELSE StringValue(value)

\* acc[key], for a key in acc.
FieldValue(acc, key) ==
  acc[CHOOSE k \in DOMAIN acc : acc[k].key = key].value

\* { ...acc, [key]: val }: the key keeps its place when acc has it.
WithField(acc, key, val) ==
  IF HasField(acc, key)
  THEN [ k \in DOMAIN acc |->
           IF acc[k].key = key THEN [key |-> key, value |-> val] ELSE acc[k] ]
  ELSE Append(acc, [key |-> key, value |-> val])

\* The reducer of parse assigning the coerced value for an array as for any
\* other value.
parseStepOverwrite(acc, line, allowUnknownKeys) ==
  LET key == split(line, ColonSpace)[1]
      value == split(line, ColonSpace)[2]
  IN IF TrackTransform(key) # "none"
     THEN WithField(acc, key, Transform(TrackTransform(key), value))
     ELSE IF allowUnknownKeys THEN WithField(acc, key, StringValue(value))
     ELSE acc

\* parse: the reducer, on one of the lines kept. The line is split at every
\* ": " and the first two parts are the key and the value.
parseStep(acc, line, allowUnknownKeys) ==
  LET key == split(line, ColonSpace)[1]
      value == split(line, ColonSpace)[2]
  IN IF TrackTransform(key) # "none"
     THEN LET val == Transform(TrackTransform(key), value)
          IN IF val.type = "array" /\ HasField(acc, key)
             THEN WithField(acc, key,
                    ArrayValue(FieldValue(acc, key).items \o val.items))
             ELSE WithField(acc, key, val)
     ELSE IF allowUnknownKeys THEN WithField(acc, key, StringValue(value))
     ELSE acc

RECURSIVE parseFrom(_, _, _)
parseFrom(acc, kept, allowUnknownKeys) ==
  IF kept = <<>> THEN acc
  ELSE parseFrom(parseStep(acc, kept[1], allowUnknownKeys), Tail(kept),
                 allowUnknownKeys)

\* parse(input, TrackTransform, allowUnknownKeys)
parse(input, allowUnknownKeys) ==
  parseFrom(<<>>, SelectSeq(split(input, NL), IsKeyValueLine),
            allowUnknownKeys)

\* A response has arrived and is about to be parsed: a listing, with the
\* separatorTag or groupBy argument, or a song's description, with the
\* allowUnknownKeys argument.
ParseInit ==
  /\ SessionInit
  /\ LegacyInit
  /\ QueueRest
  /\ CommandListRest
  /\ CommandRest
  /\ FramerRest
  /\ BinaryRest
  /\ FilterRest
  /\ \/ /\ plines \in ResponseTexts
        /\ psep \in SeparatorTags
        /\ pallow = FALSE
     \/ /\ plines \in TrackTexts
        /\ psep = Undefined
        /\ pallow \in BOOLEAN
  /\ ppc = "start"
  /\ pfn = ""
  /\ pout = <<>>

\* parseUnknownList(input, separatorTag)
ParseUnknownList ==
  /\ ppc = "start"
  /\ pout' = parseUnknownList(ResponseText(plines), psep)
  /\ pfn' = "parseUnknownList"
  /\ ppc' = "done"
  /\ UNCHANGED <<plines, psep, pallow, notP>>

\* parseUnknownGroup(input, groupBy)
ParseUnknownGroup ==
  /\ ppc = "start"
  /\ psep # Undefined
  /\ pout' = parseUnknownGroup(ResponseText(plines), psep)
  /\ pfn' = "parseUnknownGroup"
  /\ ppc' = "done"
  /\ UNCHANGED <<plines, psep, pallow, notP>>

\* parse(input, TrackTransform, allowUnknownKeys)
Parse ==
  /\ ppc = "start"
  /\ psep = Undefined
  /\ pout' = parse(ResponseText(plines), pallow)
  /\ pfn' = "parse"
  /\ ppc' = "done"
  /\ UNCHANGED <<plines, psep, pallow, notP>>

ParseNext ==
  \/ ParseUnknownList
  \/ ParseUnknownGroup
  \/ Parse

ParseSpec == ParseInit /\ [][ParseNext]_vars

(***************************************************************************)
(* The database and queue commands of packages/MPD/mpd.ts                  *)
(***************************************************************************)

\* Bound of the command model: the largest position or record number tried.
MaxPosition == 2

\* An optional argument or property: omitted, or given with a value.
Omitted == <<>>
Given(value) == <<value>>
IsGiven(option) == Len(option) = 1
ValueOf(option) == option[1]

\* A song position: a bare number, or the array [start, end].
Position(n) == [array |-> FALSE, items |-> <<n>>]
Range(start, end) == [array |-> TRUE, items |-> <<start, end>>]

Space == <<" ">>
FindWord == <<"f", "i", "n", "d">>
FindAddWord == <<"f", "i", "n", "d", "a", "d", "d">>
SearchWord == <<"s", "e", "a", "r", "c", "h">>
SearchAddWord == <<"s", "e", "a", "r", "c", "h", "a", "d", "d">>
SearchAddPlWord ==
  <<"s", "e", "a", "r", "c", "h", "a", "d", "d", "p", "l">>
ListWord == <<"l", "i", "s", "t">>
PlaylistInfoWord ==
  <<"p", "l", "a", "y", "l", "i", "s", "t", "i", "n", "f", "o">>
DeleteWord == <<"d", "e", "l", "e", "t", "e">>
SortWord == <<"s", "o", "r", "t">>
WindowWord == <<"w", "i", "n", "d", "o", "w">>
PositionWord == <<"p", "o", "s", "i", "t", "i", "o", "n">>
GroupWord == <<"g", "r", "o", "u", "p">>

\* `${options}` of an object that is no array: "[object Object]".
ObjectToString ==
  <<"[", "o", "b", "j", "e", "c", "t", " ", "O", "b", "j", "e", "c", "t", "]">>

\* rangeToCmd: an array is joined with ":", a number is rendered as it is.
rangeToCmd(range) ==
  IF range.array
  THEN join([k \in DOMAIN range.items |-> ToDigits(range.items[k])], <<":">>)
  ELSE ToDigits(range.items[1])

\* The condition `v ? .. : ..` on an optional number: undefined and 0 are
\* falsy.
TruthyNumber(v) == IsGiven(v) /\ ValueOf(v) # 0

\* The condition on an optional number or array: an array is always truthy.
TruthyPosition(v) ==
  IsGiven(v) /\ (ValueOf(v).array \/ ValueOf(v).items[1] # 0)

\* const order, const sort
sortText(options) ==
  LET order == IF IsGiven(options.sort) /\ ValueOf(options.sort).descending
               THEN <<"-">> ELSE <<>>
  IN IF IsGiven(options.sort)
     THEN SortWord \o Space \o order \o ValueOf(options.sort).tag
     ELSE <<>>

\* const window
windowText(options) ==
  IF IsGiven(options.window)
  THEN WindowWord \o Space \o rangeToCmd(ValueOf(options.window))
  ELSE <<>>

\* const position of findAdd and searchAddPlaylist
positionText(options) ==
  IF TruthyNumber(options.position)
  THEN PositionWord \o Space \o ToDigits(ValueOf(options.position))
  ELSE <<>>

\* const position of searchAdd: typeof options.position === "number"
positionNumber(options) ==
  IF IsGiven(options.position) THEN ToDigits(ValueOf(options.position)) ELSE <<>>

\* The message find passes to sendCommand.
find(filter, options) ==
  IF IsGiven(options)
  THEN FindWord \o Space \o createFilter(filter) \o Space
         \o sortText(ValueOf(options)) \o Space \o windowText(ValueOf(options))
  ELSE FindWord \o Space \o createFilter(filter)

\* The message findAdd passes to sendCommand.
findAdd(filter, options) ==
  IF IsGiven(options)
  THEN FindAddWord \o Space \o createFilter(filter) \o Space
         \o sortText(ValueOf(options)) \o Space \o windowText(ValueOf(options))
         \o Space \o positionText(ValueOf(options))
  ELSE FindAddWord \o Space \o createFilter(filter)

\* The message search passes to sendCommand.
search(filter, options) ==
  IF IsGiven(options)
  THEN SearchWord \o Space \o createFilter(filter) \o Space
         \o sortText(ValueOf(options)) \o Space \o windowText(ValueOf(options))
  ELSE SearchWord \o Space \o createFilter(filter)

\* The message searchAdd passes to sendCommand.
searchAdd(filter, options) ==
  IF IsGiven(options)
  THEN SearchAddWord \o Space \o createFilter(filter) \o Space
         \o sortText(ValueOf(options)) \o Space \o windowText(ValueOf(options))
         \o Space \o ObjectToString \o Space
         \o positionNumber(ValueOf(options))
  ELSE SearchAddWord \o Space \o createFilter(filter)

\* The message searchAddPlaylist passes to sendCommand.
searchAddPlaylist(name, filter, options) ==
  IF IsGiven(options)
  THEN SearchAddPlWord \o Space \o name \o Space \o createFilter(filter)
         \o Space \o sortText(ValueOf(options)) \o Space
         \o windowText(ValueOf(options)) \o Space
         \o positionText(ValueOf(options))
  ELSE SearchAddPlWord \o Space \o name \o Space \o createFilter(filter)

\* The message list passes to sendCommand; isGroupListOptions is
\* `"group" in options`.
list(type, options) ==
  LET msg == ListWord \o Space \o type
      withFilter == msg \o Space \o createFilter(ValueOf(options).filter)
  IN IF ~IsGiven(options) THEN msg
     ELSE IF IsGiven(ValueOf(options).group)
     THEN withFilter \o Space \o GroupWord \o Space
            \o ValueOf(ValueOf(options).group)
     ELSE withFilter

\* The message playlistInfo passes to sendCommand.
playlistInfo(songpos) ==
  IF TruthyPosition(songpos)
  THEN PlaylistInfoWord \o Space \o rangeToCmd(ValueOf(songpos))
  ELSE PlaylistInfoWord

\* The message delete passes to sendCommand.
delete(position) == DeleteWord \o Space \o rangeToCmd(position)

\* The arguments tried.
PlaylistName == <<"p">>
CommandFilters ==
  { StringFilter(<<"a">>), ObjectFilter(AlbumTag, <<"a">>, <<>>) }
Sorts ==
  {Omitted} \cup { Given([tag |-> ArtistTag, descending |-> d]) :
                     d \in BOOLEAN }
Windows == {Omitted} \cup { Given(Range(0, e)) : e \in 1..MaxPosition }
Positions == {Omitted} \cup { Given(n) : n \in 0..MaxPosition }
Groups == {Omitted, Given(ArtistTag)}
Options(sort, window, position, filter, group) ==
  [ sort |-> sort, window |-> window, position |-> position,
    filter |-> filter, group |-> group ]
SearchOptions ==
  {Omitted} \cup { Given(Options(s, w, Omitted, AbsentFilter, Omitted)) :
                     s \in Sorts, w \in Windows }
AddOptions ==
  {Omitted} \cup { Given(Options(s, w, p, AbsentFilter, Omitted)) :
                     s \in Sorts, w \in Windows, p \in Positions }
ListOptions ==
  {Omitted} \cup { Given(Options(Omitted, Omitted, Omitted, f, g)) :
                     f \in CommandFilters \cup {AbsentFilter}, g \in Groups }
SongPositions ==
  { Position(n) : n \in 0..MaxPosition }
    \cup { Range(s, e) : s \in 0..MaxPosition, e \in 0..MaxPosition }

CommandCall(method, filter, options, songpos) ==
  [ method |-> method, filter |-> filter, options |-> options,
    songpos |-> songpos ]
CommandCalls ==
  { CommandCall(m, f, o, Omitted) :
      m \in {"find", "search"}, f \in CommandFilters, o \in SearchOptions }
  \cup
  { CommandCall(m, f, o, Omitted) :
      m \in {"findAdd", "searchAdd", "searchAddPlaylist"},
      f \in CommandFilters, o \in AddOptions }
  \cup { CommandCall("list", AbsentFilter, o, Omitted) : o \in ListOptions }
  \cup { CommandCall("playlistInfo", AbsentFilter, Omitted, p) :
           p \in {Omitted} \cup { Given(q) : q \in SongPositions } }
  \cup { CommandCall("delete", AbsentFilter, Omitted, Given(p)) :
           p \in SongPositions }

\* A method of the session is about to be called; the session is not idling.
CommandInit ==
  /\ SessionInit
  /\ LegacyInit
  /\ QueueRest
  /\ CommandListRest
  /\ FramerRest
  /\ BinaryRest
  /\ FilterRest
  /\ ParseRest
  /\ mcall \in CommandCalls
  /\ mpc = "start"
  /\ mline = <<>>
  /\ mret = <<>>

\* sendCommand(message) up to its write: message + "\n" goes to a fresh
\* connection.
SendCommand(method, message) ==
  /\ mpc = "start"
  /\ mcall.method = method
  /\ mline' = message \o NL
  /\ mpc' = "written"
  /\ UNCHANGED <<mcall, notM>>

Find ==
  /\ SendCommand("find", find(mcall.filter, mcall.options))
  /\ UNCHANGED mret

FindAdd ==
  /\ SendCommand("findAdd", findAdd(mcall.filter, mcall.options))
  /\ UNCHANGED mret

Search ==
  /\ SendCommand("search", search(mcall.filter, mcall.options))
  /\ UNCHANGED mret

SearchAdd ==
  /\ SendCommand("searchAdd", searchAdd(mcall.filter, mcall.options))
  /\ UNCHANGED mret

SearchAddPlaylist ==
  /\ SendCommand("searchAddPlaylist",
                 searchAddPlaylist(PlaylistName, mcall.filter, mcall.options))
  /\ UNCHANGED mret

List ==
  /\ SendCommand("list", list(AlbumTag, mcall.options))
  /\ UNCHANGED mret

PlaylistInfo ==
  /\ SendCommand("playlistInfo", playlistInfo(mcall.songpos))
  /\ UNCHANGED mret

\* delete does not await sendCommand: its promise is fulfilled with undefined
\* while the request is under way.
Delete ==
  /\ SendCommand("delete", delete(ValueOf(mcall.songpos)))
  /\ mret' = [threw |-> FALSE, name |-> "", value |-> Undefined]

\* The rest of sendCommand: the response is read and the connection closed.
\* list passes the response through handleError, the others return it.
CommandReadAll(resp) ==
  /\ mpc = "written"
  /\ mret' = IF mcall.method = "list" THEN handleError(resp)
             ELSE IF mcall.method = "delete" THEN mret
             ELSE [threw |-> FALSE, name |-> "", value |-> resp]
  /\ mpc' = "settled"
  /\ UNCHANGED <<mcall, mline, notM>>

CommandNext ==
  \/ Find
  \/ FindAdd
  \/ Search
  \/ SearchAdd
  \/ SearchAddPlaylist
  \/ List
  \/ PlaylistInfo
  \/ Delete
  \/ \E resp \in Responses : CommandReadAll(resp)

CommandSpec == CommandInit /\ [][CommandNext]_vars

(***************************************************************************)
(* Command lists: MPD.commandListOK of packages/MPD/types.ts               *)
(***************************************************************************)

\* Bounds of the command-list model: the commands of a list, and the lines
\* of one command's response.
MaxCommands == 2
MaxFields == 2

ListOKBegin ==
  <<"c", "o", "m", "m", "a", "n", "d", "_", "l", "i", "s", "t", "_", "o",
    "k", "_", "b", "e", "g", "i", "n">>
ListEnd ==
  <<"c", "o", "m", "m", "a", "n", "d", "_", "l", "i", "s", "t", "_", "e",
    "n", "d">>
ListOK == <<"l", "i", "s", "t", "_", "O", "K">>
AckErrorKey == <<"A", "C", "K", "_", "E", "R", "R", "O", "R">>
CurrentSongCmd == <<"c", "u", "r", "r", "e", "n", "t", "s", "o", "n", "g">>
StatusCmd == <<"s", "t", "a", "t", "u", "s">>

\* The commands tried: currentsong and status in turn.
ListCommands(n) ==
  [k \in 1..n |-> IF k % 2 = 1 THEN CurrentSongCmd ELSE StatusCmd]

\* The lines a command of the list may answer with: a title, a title
\* holding ": ", a title that reads list_OK, a song id.
ListLines ==
  { FieldLine(TitleKey, <<"a">>),
    FieldLine(TitleKey, <<"a", ":", " ", "b">>),
    FieldLine(TitleKey, ListOK),
    FieldLine(IdKey, <<"1">>) }
ListResponses == UNION { [1..k -> ListLines] : k \in 0..MaxFields }

\* What the daemon answers when the first `done` commands succeed: their
\* responses, each followed by list_OK, then OK when all succeeded and an
\* ACK line when the next one failed.
ListResponseText(resps, done) ==
  concat([k \in 1..done |-> ResponseText(resps[k]) \o ListOK \o NL])
    \o (IF done = Len(resps) THEN RespOK ELSE RespAck)

\* The value of a key whose line holds no ": " after it.
UndefinedValue == [type |-> "undefined", str |-> <<>>, items |-> <<>>]

\* parseUnknown of packages/MPD/transformers.ts: the reducer. The line is
\* split at every ": " and the first two parts are the key and the value.
parseUnknownStep(acc, line) ==
  IF StartsWith(line, AckPrefix)
  THEN WithField(acc, AckErrorKey, StringValue(line))
  ELSE IF includes(line, <<":">>)
  THEN LET parts == split(line, ColonSpace)
       IN WithField(acc, parts[1],
                    IF Len(parts) >= 2 THEN StringValue(parts[2])
                    ELSE UndefinedValue)
  ELSE acc

RECURSIVE parseUnknownFrom(_, _)
parseUnknownFrom(acc, lines) ==
  IF lines = <<>> THEN acc
  ELSE parseUnknownFrom(parseUnknownStep(acc, lines[1]), Tail(lines))

parseUnknown(input) == parseUnknownFrom(<<>>, split(input, NL))

\* The request of commandListOK: msgList.join("\n"), and the newline
\* sendMessage appends.
commandListOKMessage(commands) ==
  join(<<ListOKBegin>> \o commands \o <<ListEnd>>, NL) \o NL

\* commandListOK, from the response on: the pieces between the list_OK
\* markers are parsed, and the last record is dropped when it is empty.
commandListOKGroups(response) ==
  LET pieces == split(response, ListOK)
      groups == [k \in DOMAIN pieces |-> parseUnknown(pieces[k])]
  IN IF groups[Len(groups)] = <<>>
     THEN SubSeq(groups, 1, Len(groups) - 1)
     ELSE groups

\* commandListOK is about to be called on a connected client that is not
\* idling; the daemon holds an answer for each command.
CommandListInit ==
  /\ SessionInit
  /\ LegacyInit
  /\ QueueRest
  /\ FramerRest
  /\ BinaryRest
  /\ FilterRest
  /\ ParseRest
  /\ CommandRest
  /\ \E n \in 0..MaxCommands :
       /\ kcmds = ListCommands(n)
       /\ kresps \in [1..n -> ListResponses]
  /\ kpc = "start"
  /\ kline = <<>>
  /\ kdone = 0
  /\ kout = <<>>

\* commandListOK up to the write of sendMessage.
CommandListWrite ==
  /\ kpc = "start"
  /\ kline' = commandListOKMessage(kcmds)
  /\ kpc' = "written"
  /\ UNCHANGED <<kcmds, kresps, kdone, kout, notK>>

\* The rest of commandListOK: the daemon has run the first `done` commands.
CommandListReadAll(done) ==
  /\ kpc = "written"
  /\ kdone' = done
  /\ kout' = commandListOKGroups(ListResponseText(kresps, done))
  /\ kpc' = "done"
  /\ UNCHANGED <<kcmds, kresps, kline, notK>>

CommandListNext ==
  \/ CommandListWrite
  \/ \E done \in 0..Len(kcmds) : CommandListReadAll(done)

CommandListSpec == CommandListInit /\ [][CommandListNext]_vars

(***************************************************************************)
(* MPDClient.clearRestOfQueue of src/main.ts                               *)
(***************************************************************************)

\* Bound of the queue model: the songs of the queue.
MaxQueue == 3

CurrentSongWord == <<"c", "u", "r", "r", "e", "n", "t", "s", "o", "n", "g">>
QueueFiles == { <<"a">>, <<"b", "b">> }
Queues == UNION { [1..n -> QueueFiles] : n \in 0..MaxQueue }

\* What the daemon tells of the song at position p (counted from 0).
SongText(files, p) ==
  ResponseText(<< FieldLine(FileKey, files[p + 1]),
                  FieldLine(PosKey, ToDigits(p)) >>)

\* The daemon's answer to currentsong: the current song, if there is one.
CurrentSongText(files, song) ==
  (IF IsGiven(song) THEN SongText(files, ValueOf(song)) ELSE <<>>) \o RespOK

\* The daemon's answer to playlistinfo: every song of the queue.
PlaylistInfoText(files) ==
  concat([k \in DOMAIN files |-> SongText(files, k - 1)]) \o RespOK

QueueOp(op, text) == [op |-> op, text |-> text]

\* `if (currentPosition)`: undefined, 0 and NaN are falsy.
TruthyNumeric(v) ==
  IsGiven(v) /\ ~ValueOf(v).nan /\ ValueOf(v).n # 0

\* clearRestOfQueue is about to be called; the session is not idling.
QueueInit ==
  /\ SessionInit
  /\ LegacyInit
  /\ FramerRest
  /\ BinaryRest
  /\ FilterRest
  /\ ParseRest
  /\ CommandRest
  /\ CommandListRest
  /\ qfiles \in Queues
  /\ qsong \in {Omitted} \cup { Given(p) : p \in 0..(Len(qfiles) - 1) }
  /\ qpc = "start"
  /\ qlog = <<>>
  /\ qposition = <<>>
  /\ qret = ""

\* this.currentSong() up to the write of sendCommand.
ClearCurrentSongWrite ==
  /\ qpc = "start"
  /\ qlog' = Append(qlog, QueueOp("write", CurrentSongWord \o NL))
  /\ qpc' = "currentsong"
  /\ UNCHANGED <<qfiles, qsong, qposition, qret, notQ>>

\* The response to currentsong: MPD.currentSong throws on an ACK; otherwise
\* the response is parsed and currentPosition is its Pos. A falsy position
\* ends clearRestOfQueue.
ClearCurrentSongRead(ack) ==
  /\ qpc = "currentsong"
  /\ LET response == IF ack THEN RespAck
                     ELSE CurrentSongText(qfiles, qsong)
         currentSong == parse(response, FALSE)
         currentPosition ==
           IF HasField(currentSong, PosKey)
           THEN Given(FieldValue(currentSong, PosKey).items[1])
           ELSE Omitted
     IN /\ qlog' = Append(qlog, QueueOp("readAll", response))
        /\ IF handleError(response).threw
           THEN /\ qret' = "rejected"
                /\ qpc' = "done"
                /\ UNCHANGED qposition
           ELSE /\ qposition' = currentPosition
                /\ IF TruthyNumeric(currentPosition)
                   THEN /\ qpc' = "queue"
                        /\ UNCHANGED qret
                   ELSE /\ qpc' = "done"
                        /\ qret' = "fulfilled"
  /\ UNCHANGED <<qfiles, qsong, notQ>>

\* this.mpd.playlistInfo() up to the write of sendCommand.
ClearPlaylistInfoWrite ==
  /\ qpc = "queue"
  /\ qlog' = Append(qlog, QueueOp("write", playlistInfo(Omitted) \o NL))
  /\ qpc' = "playlistinfo"
  /\ UNCHANGED <<qfiles, qsong, qposition, qret, notQ>>

\* The response to playlistinfo is `playlist`. delete is called; it does not
\* await its sendCommand, so the promise of clearRestOfQueue is fulfilled
\* while the delete request is under way.
ClearPlaylistInfoRead ==
  /\ qpc = "playlistinfo"
  /\ qlog' = Append(qlog, QueueOp("readAll", PlaylistInfoText(qfiles)))
  /\ qret' = "fulfilled"
  /\ qpc' = "delete"
  /\ UNCHANGED <<qfiles, qsong, qposition, notQ>>

\* The request of this.mpd.delete([delStart, playlist.length]): playlist is
\* the response text, its length the number of its characters.
ClearDeleteWrite ==
  /\ qpc = "delete"
  /\ LET playlist == qlog[Len(qlog)].text
         delStart == ValueOf(qposition).n + 1
     IN qlog' = Append(qlog,
                  QueueOp("write",
                          delete(Range(delStart, Len(playlist))) \o NL))
  /\ qpc' = "deleting"
  /\ UNCHANGED <<qfiles, qsong, qposition, qret, notQ>>

\* The response to delete is read and dropped.
ClearDeleteRead ==
  /\ qpc = "deleting"
  /\ qlog' = Append(qlog, QueueOp("readAll", RespOK))
  /\ qpc' = "done"
  /\ UNCHANGED <<qfiles, qsong, qposition, qret, notQ>>

QueueNext ==
  \/ ClearCurrentSongWrite
  \/ \E ack \in BOOLEAN : ClearCurrentSongRead(ack)
  \/ ClearPlaylistInfoWrite
  \/ ClearPlaylistInfoRead
  \/ ClearDeleteWrite
  \/ ClearDeleteRead

QueueSpec == QueueInit /\ [][QueueNext]_vars

(***************************************************************************)
(* The session with either its text commands or a binary command          *)
(***************************************************************************)

\* The session has been constructed, or sendCommandBinary has been called
\* on it.
ExchangeInit == Init \/ BinaryInit

\* The steps of the text commands, and those of sendCommandBinary.
ExchangeNext ==
  \/ bpc = "idle" /\ Next
  \/ BinaryNext

ExchangeSpec == ExchangeInit /\ [][ExchangeNext]_vars

(***************************************************************************)
(* Properties of the session                                               *)
(***************************************************************************)

IsCommand(i) == calls[i].method \in CommandMethods

\* The operations performed on connection c (none when c was never opened).
OpsOn(c) == IF c \in DOMAIN conns THEN conns[c].ops ELSE <<>>

HasOp(c, op, d) == \E k \in DOMAIN OpsOn(c) : OpsOn(c)[k] = Op(op, d)

\* Call i's own request line has been written on its connection.
RequestWritten(i) ==
  HasOp(calls[i].conn, "write", RequestLine(calls[i].method))

\* The response to call i's request has been read.
ResponseRead(i) == HasOp(calls[i].conn, "readAll", "")

\* The "noidle" lines written on the connections call i opened.
CancelWrites(i) ==
  UNION { { <<c, k>> : k \in { n \in DOMAIN conns[c].ops :
                                 conns[c].ops[n] = Op("write", NoidleLine) } } :
          c \in { d \in DOMAIN conns : conns[d].owner = i } }

\* C1: a command sent through sendCommand while the idling flag is true writes
\* exactly one "noidle" request, and writes it before its own request line:
\* never more than one, and exactly one by the time its request is written.
C1_OneCancelBeforeRequest ==
  \A i \in DOMAIN calls :
    (IsCommand(i) /\ calls[i].wasIdling) =>
      /\ Cardinality(CancelWrites(i)) <= 1
      /\ RequestWritten(i) => Cardinality(CancelWrites(i)) = 1

C1_Witness ==
  \E i \in DOMAIN calls :
    IsCommand(i) /\ calls[i].wasIdling /\ RequestWritten(i)

\* C2: when a command that sendCommand sent while the idling flag was true
\* completes, the idling flag is false.
C2_IdleFreeAfterCommand ==
  [][\A i \in DOMAIN calls :
       (/\ IsCommand(i)
        /\ calls[i].wasIdling
        /\ calls[i].pc = "readAll"
        /\ calls'[i].pc = "done") => idling' = FALSE]_vars

\* An idle request is outstanding on call j's connection.
IdleOutstanding(j) == calls[j].method = "idle" /\ calls[j].pc = "i_readAll"

\* C3: the "noidle" of a command sent while idling is written on the
\* connection that holds the outstanding idle request (the connection the
\* command's write of "noidle" is under way on, while an idle request is
\* outstanding, is the idle request's), and its response is read before the
\* command's request is written.
C3_CancelOnIdleConnection ==
  \A i \in DOMAIN calls :
    (IsCommand(i) /\ calls[i].wasIdling) =>
      /\ \A j \in DOMAIN calls :
           (j < i /\ IdleOutstanding(j) /\ calls[i].pc = "nc_write")
             => calls[i].iconn = calls[j].conn
      /\ RequestWritten(i) => HasOp(calls[i].iconn, "read", "")

\* No cancellation has been written on any connection.
NoCancellation ==
  \A c \in DOMAIN conns : ~HasOp(c, "write", NoidleLine)

\* C4: once idle() has sent its request, and while no response has arrived and
\* no cancellation has been made, the idling flag is true.
C4_IdlingWhileIdleOutstanding ==
  \A j \in DOMAIN calls :
    (IdleOutstanding(j) /\ NoCancellation) => idling

\* C5: idle() invoked while the idling flag is true is rejected at once with
\* "Already idling", opens no connection, writes and reads nothing, and leaves
\* the idling flag as it was.
C5_AlreadyIdlingRejected ==
  /\ [](\A i \in DOMAIN calls :
          (calls[i].method = "idle" /\ calls[i].wasIdling) =>
            /\ calls[i].promise = "rejected"
            /\ calls[i].err = "Error"
            /\ calls[i].value = AlreadyIdling
            /\ \A c \in DOMAIN conns : conns[c].owner # i)
  /\ [][(/\ Len(calls') = Len(calls) + 1
         /\ calls'[Len(calls')].method = "idle"
         /\ idling) => (idling' /\ conns' = conns)]_vars

C5_Witness ==
  \E i \in DOMAIN calls : calls[i].method = "idle" /\ calls[i].wasIdling

\* C6: commands issued one after another while not idling are processed in
\* submission order: when B was issued after A's promise resolved, A's request
\* has been written and A's response read before B's request is written.
C6_SubmissionOrder ==
  \A i, j \in DOMAIN calls :
    (/\ i < j
     /\ IsCommand(i) /\ IsCommand(j)
     /\ ~calls[i].wasIdling /\ ~calls[j].wasIdling
     /\ calls[i].promise = "resolved"
     /\ RequestWritten(j)) => (RequestWritten(i) /\ ResponseRead(i))

\* C7: a method that passes its response through handleError fails with an
\* ACKError whose message is the whole response text when that text begins
\* with "ACK ", and otherwise returns the response text unchanged.
C7_HandleError ==
  \A i \in DOMAIN calls :
    (calls[i].method \in CheckedMethods /\ calls[i].pc = "done") =>
      IF StartsWith(calls[i].resp, <<"A", "C", "K", " ">>)
      THEN /\ calls[i].promise = "rejected"
           /\ calls[i].err = "ACKError"
           /\ calls[i].value = calls[i].resp
      ELSE /\ calls[i].promise = "resolved"
           /\ calls[i].value = calls[i].resp

C7_Witness ==
  \E i, j \in DOMAIN calls :
    /\ calls[i].method \in CheckedMethods /\ calls[i].pc = "done"
    /\ calls[i].resp = RespAck /\ calls[i].promise = "rejected"
    /\ calls[j].method \in CheckedMethods /\ calls[j].pc = "done"
    /\ calls[j].resp = RespAckKey /\ calls[j].promise = "resolved"

\* C8: for every command method, a response beginning with "ACK " makes the
\* call fail with an ACK-typed error, and is never the call's normal result.
C8_EveryAckRaised ==
  \A i \in DOMAIN calls :
    (IsCommand(i) /\ calls[i].pc = "done"
       /\ StartsWith(calls[i].resp, <<"A", "C", "K", " ">>)) =>
      /\ calls[i].promise = "rejected"
      /\ calls[i].err = "ACKError"

\* C9: a failure of a command's round trip rejects the promise its method
\* returned, and no method's promise is resolved unless its round trip has
\* completed.
C9_FailuresPropagate ==
  \A i \in DOMAIN calls :
    IsCommand(i) =>
      /\ calls[i].pc = "failed" => calls[i].promise = "rejected"
      /\ calls[i].promise = "resolved" => calls[i].pc = "done"

\* The operations of one round trip of call i on its connection.
RoundTrip(i) ==
  <<Op("write", RequestLine(calls[i].method)), Op("readAll", ""), Op("close", "")>>

\* C11: a command sent through sendCommand while not idling opens one
\* connection and performs on it, in this order and once each, the write of
\* its command text followed by one newline, the read of the framed response
\* and the close: what has been done on the connection is always a prefix of
\* that sequence and is the whole of it once the command has completed; no
\* other connection is opened for it; the connection is closed only after the
\* response was read, and the response sendCommand returns is the one read
\* from that connection.
C11_MicroProtocol ==
  \A i \in DOMAIN calls :
    (IsCommand(i) /\ ~calls[i].wasIdling) =>
      /\ \A c \in DOMAIN conns : conns[c].owner = i => c = calls[i].conn
      /\ Len(OpsOn(calls[i].conn)) <= Len(RoundTrip(i))
      /\ OpsOn(calls[i].conn) = SubSeq(RoundTrip(i), 1, Len(OpsOn(calls[i].conn)))
      /\ calls[i].pc = "done" =>
           /\ OpsOn(calls[i].conn) = RoundTrip(i)
           /\ ~conns[calls[i].conn].open
           /\ calls[i].resp = conns[calls[i].conn].recv
      /\ \A c \in DOMAIN conns :
           (conns[c].owner = i /\ ~conns[c].open) => HasOp(c, "readAll", "")

C11_Witness ==
  \E i \in DOMAIN calls :
    /\ IsCommand(i) /\ ~calls[i].wasIdling /\ calls[i].pc = "done"
    /\ calls[i].method \in ReturnedMethods
    /\ calls[i].value = RespAckKey
    /\ conns[calls[i].conn].recv = RespAckKey

(***************************************************************************)
(* Properties of the first client                                          *)
(***************************************************************************)

\* C10: after disconnect(), any command invoked on the client fails with
\* "Not connected to MPD" and performs no write, read or connect.
C10_NotConnectedAfterDisconnect ==
  \A i \in DOMAIN lcalls :
    lcalls[i].connAtCall = "null" =>
      /\ lcalls[i].promise = "rejected"
      /\ lcalls[i].err = "AssertionError"
      /\ lcalls[i].value = NotConnected
      /\ lcalls[i].io = 0
      /\ ~lcalls[i].worker

(***************************************************************************)
(* Properties of the response framer                                       *)
(***************************************************************************)

\* C12: the framer stops reading and returns as soon as the bytes accumulated
\* so far end with "OK\n", however the transport splits the response into
\* chunks: whenever data ends with "OK\n", getResponse has returned it.
C12_StopsAtOK ==
  EndsWith(fdata, <<"O", "K", "\n">>) => (fpc = "returned" /\ fret = fdata)

\* C13: when a read reports end-of-stream before a terminator was seen, the
\* framer fails with "Connection closed by server" and returns nothing, also
\* when it has accumulated bytes.
C13_ClosedByPeer ==
  /\ feof => (fpc = "threw" /\ ferr = ConnectionClosed /\ fret = <<>>)
  /\ fpc = "threw" => feof
  /\ fpc = "returned" => ~feof

C13_Witness == feof /\ fdata = StreamCut /\ fpc = "threw"

\* s holds an "ACK " that is followed, later in s, by a newline.
CompleteAckLine(s) ==
  \E k \in 1..(Len(s) - 3) :
    /\ SubSeq(s, k, k + 3) = <<"A", "C", "K", " ">>
    /\ \E j \in (k + 4)..Len(s) : s[j] = "\n"

\* C14: when a chunk holds "ACK ", the framer stops and returns the bytes
\* accumulated so far as they were received, and they include the whole ACK
\* line up to its newline, however the transport splits the response.
C14_AckLineReturned ==
  IncludesNeedle(fcontent, <<"A", "C", "K", " ">>) =>
    /\ fpc = "returned"
    /\ fret = SubSeq(fstream, 1, fpos)
    /\ CompleteAckLine(fret)

(***************************************************************************)
(* Properties of sendCommandBinary                                         *)
(***************************************************************************)

RECURSIVE SumBinary(_)
SumBinary(sent) ==
  IF sent = <<>> THEN 0 ELSE sent[1].binary + SumBinary(Tail(sent))

\* C15: for sendCommandBinary started at offset 0, when every chunk response
\* declares the total size S and the declared binary lengths of the chunks sum
\* to S, the payload returned is the concatenation of the chunk payloads in
\* request order, its length is S and meta.size is S.
C15_BinaryReassembly ==
  LET S == Len(bfile) IN
  (/\ bpc = "done"
   /\ breqs[1] = 0
   /\ \A k \in DOMAIN bsent : bsent[k].kind = "chunk" /\ bsent[k].size = Num(S)
   /\ SumBinary(bsent) = S) =>
     /\ bresult[1].binary = concat([k \in DOMAIN bsent |-> bsent[k].payload])
     /\ bresult[1].binary = bfile
     /\ Len(bresult[1].binary) = S
     /\ bresult[1].meta.size = Num(S)

C15_Witness ==
  /\ bpc = "done"
  /\ breqs = <<0, 1>>
  /\ Len(bsent) = 2
  /\ \A k \in DOMAIN bsent : bsent[k].kind = "chunk"
  /\ bsent[1].binary = 1
  /\ bsent[2].binary = 2
  /\ Len(bresult[1].binary) = 3

C17_BadTotalSizeFails ==
  \A k \in DOMAIN bsent :
    bsent[k].kind \in {"nosize", "badsize"} =>
      /\ bpc = "failed"
      /\ Len(breqs) = k

(***************************************************************************)
(* Properties of the filter compiler                                       *)
(***************************************************************************)

\* s is delimited by a double quote at both ends.
DoubleQuoted(str) ==
  Len(str) >= 2 /\ str[1] = DoubleQuote /\ str[Len(str)] = DoubleQuote

\* C18: compiling a string filter is idempotent, createFilter(createFilter(s))
\* = createFilter(s) for every string s, and a string already delimited by
\* double quotes is returned unchanged, never with a second pair of quotes.
C18_FilterIdempotent ==
  cfin.kind = "string" =>
    /\ cfpc = "recompiled" => cfagain = cfout
    /\ (cfpc \in {"compiled", "recompiled"} /\ DoubleQuoted(cfin.s))
         => cfout = cfin.s

C18_Witness ==
  /\ cfpc = "recompiled"
  /\ cfin = StringFilter(<<"a", " ", "a">>)
  /\ cfout = <<DoubleQuote, "a", " ", "a", DoubleQuote>>
  /\ cfagain = cfout

\* The compiled forms of the items, in order, with one space between
\* neighbours.
RECURSIVE CompiledInOrder(_)
CompiledInOrder(items) ==
  IF items = <<>> THEN <<>>
  ELSE IF Len(items) = 1 THEN createFilter(items[1])
  ELSE CompiledInOrder(SubSeq(items, 1, Len(items) - 1)) \o <<" ">>
         \o createFilter(items[Len(items)])

\* C19: createFilter of a list returns the compiled forms of its elements in
\* list order joined by exactly one space; the empty list and an absent
\* filter compile to the empty string.
C19_FilterList ==
  cfpc \in {"compiled", "recompiled"} =>
    /\ cfin.kind = "list" => cfout = CompiledInOrder(cfin.items)
    /\ (cfin.kind = "list" /\ cfin.items = <<>>) => cfout = <<>>
    /\ cfin.kind = "absent" => cfout = <<>>

AlbumThenArtist ==
  <<"\"", "(", "a", "l", "b", "u", "m", " ", "=", "=", " ", "'", "a", "'",
    ")", "\"", " ", "\"", "(", "a", "r", "t", "i", "s", "t", " ", "=", "=",
    " ", "'", "a", "'", ")", "\"">>

C19_Witness ==
  /\ cfpc = "compiled"
  /\ cfin = ListFilter(<< ObjectFilter(AlbumTag, <<"a">>, <<>>),
                          ObjectFilter(ArtistTag, <<"a">>, <<>>) >>)
  /\ cfout = AlbumThenArtist

(***************************************************************************)
(* Properties of the parsers                                               *)
(***************************************************************************)

\* The "key: value" lines of the response, in input order.
IsKV(line) == line.kv
KeyValueLines == SelectSeq(plines, IsKV)

\* Two characters are the same letter in either case, or the same character.
SameLetter(c, d) ==
  \/ c = d
  \/ \E u \in DOMAIN UpperLetters :
       {c, d} = {UpperLetters[u], LowerLetters[u]}

\* The key of line j is the separator key K, compared without case.
IsSeparatorLine(j, K) ==
  LET key == KeyValueLines[j].key
  IN Len(key) = Len(K) /\ \A n \in DOMAIN key : SameLetter(key[n], K[n])

\* The positions of the separator lines among the "key: value" lines, in
\* order.
SeparatorPositions(K) ==
  LET IsSep(j) == IsSeparatorLine(j, K)
  IN SelectSeq([j \in 1..Len(KeyValueLines) |-> j], IsSep)

\* The lines after the r-th separator line and before the next one.
Segment(K, r) ==
  LET pos == SeparatorPositions(K)
      from == pos[r] + 1
      to == IF r < Len(pos) THEN pos[r + 1] - 1 ELSE Len(KeyValueLines)
  IN SubSeq(KeyValueLines, from, to)

\* The values of the lines of a segment whose key is k, in order.
ValuesOf(segment, k) ==
  LET HasKey(line) == line.key = k
      hits == SelectSeq(segment, HasKey)
  IN [ n \in DOMAIN hits |-> hits[n].value ]

\* C20: parseUnknownList with separator key K returns one record per
\* "key: value" line whose key is K without regard to case, in input order,
\* each beginning with that line's key and value; the other fields of a record
\* are exactly the keys of the lines between its K line and the next K line,
\* each holding the values of those lines, so that a line is a field of the
\* record of the K line before it and of no other record.
C20_OneRecordPerSeparator ==
  (ppc = "done" /\ pfn = "parseUnknownList" /\ psep # Undefined) =>
    LET pos == SeparatorPositions(psep) IN
    /\ Len(pout) = Len(pos)
    /\ \A r \in DOMAIN pout :
         LET sepLine == KeyValueLines[pos[r]]
             segment == Segment(psep, r)
             record == pout[r]
         IN /\ record[1].key = sepLine.key
            /\ record[1].values = <<sepLine.value>>
            /\ { record[k].key : k \in 2..Len(record) }
                 = { segment[n].key : n \in DOMAIN segment }
            /\ \A k \in 2..Len(record) :
                 /\ record[k].values = ValuesOf(segment, record[k].key)
                 /\ \A m \in 2..Len(record) :
                      record[m].key = record[k].key => m = k

C20_Witness ==
  /\ ppc = "done"
  /\ pfn = "parseUnknownList"
  /\ psep = FileKey
  /\ plines = << FieldLine(FileKey, <<"a">>), FieldLine(IdKey, <<"1">>),
                 FieldLine(FileKeyCapital, <<"b">>), FieldLine(IdKey, <<"2">>) >>
  /\ pout = << << StringField(FileKey, <<"a">>), StringField(IdKey, <<"1">>) >>,
               << StringField(FileKeyCapital, <<"b">>),
                  StringField(IdKey, <<"2">>) >> >>

\* C21: parseUnknownGroup(text, G) returns one group per line whose key is G
\* (the keys compared without regard to case, as the tag names of the daemon
\* are), in input order, named by that line's value; the values of a group are
\* the values of all "key: value" lines between its G line and the next G
\* line, in input order, whatever their keys.
C21_GroupValues ==
  (ppc = "done" /\ pfn = "parseUnknownGroup") =>
    LET pos == SeparatorPositions(psep) IN
    /\ Len(pout) = Len(pos)
    /\ \A r \in DOMAIN pout :
         LET segment == Segment(psep, r)
         IN /\ pout[r].group = KeyValueLines[pos[r]].value
            /\ pout[r].values = [n \in DOMAIN segment |-> segment[n].value]

C21_Witness ==
  /\ ppc = "done"
  /\ pfn = "parseUnknownGroup"
  /\ psep = FileKey
  /\ plines = << FieldLine(FileKey, <<"a">>), FieldLine(IdKey, <<"1">>),
                 FieldLine(IdKey, <<"2">>), FieldLine(FileKeyCapital, <<"b">>) >>
  /\ pout = << [group |-> <<"a">>, values |-> << <<"1">>, <<"2">> >>],
               [group |-> <<"b">>, values |-> <<>>] >>

\* Line j is the last "key: value" line of the response with its key.
LastWithKey(j) ==
  \A m \in DOMAIN KeyValueLines :
    KeyValueLines[m].key = KeyValueLines[j].key => m <= j

\* C22: parse cuts a line into key and value at its first ": " only: a key
\* coerced by String, or an unknown key stored raw, holds everything that
\* follows the first ": " of the last line with that key, also when that text
\* holds ": " itself.
C22_ValueAfterFirstDelimiter ==
  (ppc = "done" /\ pfn = "parse") =>
    \A j \in DOMAIN KeyValueLines :
      LET line == KeyValueLines[j] IN
      (/\ LastWithKey(j)
       /\ \/ line.key = TitleKey
          \/ (line.key = UnknownKey /\ pallow)) =>
        /\ HasField(pout, line.key)
        /\ FieldValue(pout, line.key) = StringValue(line.value)

\* The values of the "key: value" lines with key k, in input order.
LineValues(k) ==
  LET HasKey(line) == line.key = k
      hits == SelectSeq(KeyValueLines, HasKey)
  IN [ n \in DOMAIN hits |-> StringValue(hits[n].value) ]

\* C23: in parse, a key whose transformer yields an array and that occurs on
\* n >= 1 lines gives a flat sequence of the n values in input order: one
\* element for one line, and no value lost to a later line.
C23_ArrayKeysAccumulate ==
  (ppc = "done" /\ pfn = "parse") =>
    /\ LineValues(GenreKey) # <<>> =>
         /\ HasField(pout, GenreKey)
         /\ FieldValue(pout, GenreKey) = ArrayValue(LineValues(GenreKey))
    /\ LineValues(GenreKey) = <<>> => ~HasField(pout, GenreKey)

C23_Witness ==
  /\ ppc = "done"
  /\ pfn = "parse"
  /\ plines = << FieldLine(GenreKey, <<"x">>), FieldLine(TitleKey, <<"a">>),
                 FieldLine(GenreKey, <<"y">>), FieldLine(GenreKey, <<"x">>) >>
  /\ FieldValue(pout, GenreKey) =
       ArrayValue(<< StringValue(<<"x">>), StringValue(<<"y">>),
                     StringValue(<<"x">>) >>)

(***************************************************************************)
(* Properties of the commands                                              *)
(***************************************************************************)

\* The words of a request line: its text without the newline, cut at the
\* spaces.
Words(line) ==
  LET NonEmpty(w) == w # <<>>
  IN SelectSeq(split(SubSeq(line, 1, Len(line) - 1), Space), NonEmpty)

\* " clause value" when the option is supplied, nothing when it is not.
Clause(word, option, text) ==
  IF IsGiven(option) THEN Space \o word \o Space \o text ELSE <<>>

\* The text of a supplied sort, window, position or group option.
SortValue(s) == (IF s.descending THEN <<"-">> ELSE <<>>) \o s.tag
WindowValue(w) == ToDigits(w.items[1]) \o <<":">> \o ToDigits(w.items[2])
OptionText(options, clause) ==
  IF ~IsGiven(options) THEN <<>>
  ELSE LET o == ValueOf(options)
       IN CASE clause = "sort" ->
                 Clause(SortWord, o.sort,
                        IF IsGiven(o.sort) THEN SortValue(ValueOf(o.sort))
                        ELSE <<>>)
            [] clause = "window" ->
                 Clause(WindowWord, o.window,
                        IF IsGiven(o.window) THEN WindowValue(ValueOf(o.window))
                        ELSE <<>>)
            [] clause = "position" ->
                 Clause(PositionWord, o.position,
                        IF IsGiven(o.position) THEN ToDigits(ValueOf(o.position))
                        ELSE <<>>)
            [] clause = "group" ->
                 Clause(GroupWord, o.group,
                        IF IsGiven(o.group) THEN ValueOf(o.group) ELSE <<>>)

\* The command and its filter.
CommandHead(call) ==
  CASE call.method = "find" -> FindWord \o Space \o createFilter(call.filter)
    [] call.method = "findAdd" ->
         FindAddWord \o Space \o createFilter(call.filter)
    [] call.method = "search" ->
         SearchWord \o Space \o createFilter(call.filter)
    [] call.method = "searchAdd" ->
         SearchAddWord \o Space \o createFilter(call.filter)
    [] call.method = "searchAddPlaylist" ->
         SearchAddPlWord \o Space \o PlaylistName \o Space
           \o createFilter(call.filter)
    [] call.method = "list" ->
         ListWord \o Space \o AlbumTag
           \o (IF IsGiven(call.options)
               THEN Space \o createFilter(ValueOf(call.options).filter)
               ELSE <<>>)

\* The line of the protocol for a call: the command, the filter, then a
\* clause for each supplied option, in the order sort, window, position,
\* group.
ClauseLine(call) ==
  CommandHead(call) \o OptionText(call.options, "sort")
    \o OptionText(call.options, "window")
    \o OptionText(call.options, "position")
    \o OptionText(call.options, "group") \o NL

ClauseMethods ==
  {"find", "findAdd", "search", "searchAdd", "searchAddPlaylist", "list"}

\* C24: for find, findAdd, search, searchAdd, searchAddPlaylist and list, the
\* words of the written line are the command, the filter, and then, for each
\* supplied option and no other (a position of 0 is supplied), the clause
\* keyword followed by its value, in the order sort, window, position/group;
\* the line holds no other word.
C24_ClausesIffSupplied ==
  (mpc # "start" /\ mpc # "idle" /\ mcall.method \in ClauseMethods) =>
    Words(mline) = Words(ClauseLine(mcall))

\* C25: for every combination of supplied and omitted sort and window, find
\* writes "find <filter>", " sort <tag>" ("-" before a descending tag) and
\* " window <start>:<end>" for the supplied options only: one space between
\* consecutive tokens and none before the newline.
C25_FindLine ==
  (mpc # "start" /\ mpc # "idle" /\ mcall.method = "find") =>
    mline = ClauseLine(mcall)

\* How the protocol writes a position: the integer, or start:end.
Rendered(p) ==
  IF p.array THEN ToDigits(p.items[1]) \o <<":">> \o ToDigits(p.items[2])
  ELSE ToDigits(p.items[1])

\* C26: a bare integer position is written as that integer and a range as
\* start:end: playlistInfo(p) writes "playlistinfo p" for every p >= 0,
\* p = 0 included, and the bare "playlistinfo" only when no position is
\* given; delete(p) writes "delete p".
C26_PositionRendered ==
  (mpc # "start" /\ mpc # "idle") =>
    /\ mcall.method = "playlistInfo" =>
         mline = PlaylistInfoWord
                   \o (IF IsGiven(mcall.songpos)
                       THEN Space \o Rendered(ValueOf(mcall.songpos))
                       ELSE <<>>) \o NL
    /\ mcall.method = "delete" =>
         mline = DeleteWord \o Space \o Rendered(ValueOf(mcall.songpos)) \o NL

\* The commands whose lines are as the protocol writes them: playlistInfo
\* with a position other than the number 0, and delete.
C26_ExceptZero ==
  (mpc # "start" /\ mpc # "idle"
     /\ mcall.method \in {"playlistInfo", "delete"}
     /\ mcall.songpos # Given(Position(0))) =>
    mline = (IF mcall.method = "delete" THEN DeleteWord
             ELSE PlaylistInfoWord)
              \o (IF IsGiven(mcall.songpos)
                  THEN Space \o Rendered(ValueOf(mcall.songpos))
                  ELSE <<>>) \o NL

(***************************************************************************)
(* Properties of command lists                                             *)
(***************************************************************************)

\* The request of a command list: the opening line, the commands and the
\* closing line, each ended by a newline.
ListRequestLines ==
  ListOKBegin \o NL \o concat([k \in DOMAIN kcmds |-> kcmds[k] \o NL])
    \o ListEnd \o NL

\* The record holds the fields of the lines: the keys of the lines and no
\* other, each with the value of the last line that has the key.
HoldsFields(record, lines) ==
  /\ \A k \in DOMAIN record :
       \E n \in DOMAIN lines : lines[n].key = record[k].key
  /\ \A n \in DOMAIN lines :
       (\A later \in (n + 1)..Len(lines) : lines[later].key # lines[n].key)
         => /\ HasField(record, lines[n].key)
            /\ FieldValue(record, lines[n].key) = StringValue(lines[n].value)

\* C27: commandListOK(c1..cN) writes command_list_ok_begin, c1..cN and
\* command_list_end as consecutive lines of one request, and when every
\* command succeeded it returns exactly N records, the i-th holding the
\* fields of ci's response.
C27_OneRecordPerCommand ==
  /\ kpc \in {"written", "done"} => kline = ListRequestLines
  /\ (kpc = "done" /\ kdone = Len(kcmds)) =>
       /\ Len(kout) = Len(kcmds)
       /\ \A i \in DOMAIN kout : HoldsFields(kout[i], kresps[i])

\* The request of commandListOK is as claimed.
C27_RequestLines ==
  kpc \in {"written", "done"} => kline = ListRequestLines

\* No value of the responses holds ": " or the list_OK marker.
PlainValues ==
  \A i \in DOMAIN kresps : \A n \in DOMAIN kresps[i] :
    /\ ~includes(kresps[i][n].value, ColonSpace)
    /\ ~includes(kresps[i][n].value, ListOK)

\* With such values the records of a successful list are as claimed.
C27_PlainValues ==
  (kpc = "done" /\ kdone = Len(kcmds) /\ PlainValues) =>
    /\ Len(kout) = Len(kcmds)
    /\ \A i \in DOMAIN kout : HoldsFields(kout[i], kresps[i])

(***************************************************************************)
(* Properties of clearRestOfQueue                                          *)
(***************************************************************************)

\* The places of the log where a delete request is written.
DeleteWrites ==
  { k \in DOMAIN qlog :
      qlog[k].op = "write" /\ StartsWith(qlog[k].text, DeleteWord) }

\* The responses read before place k of the log.
ReadsBefore(k) == { j \in 1..(k - 1) : qlog[j].op = "readAll" }

\* C28: for a current song at position p >= 0 (the first position 0
\* included) in a queue of n songs, clearRestOfQueue sends exactly one
\* delete request, for the range p+1:n, and sends it only after the
\* responses to currentsong and playlistinfo have been read.
C28_DeleteRest ==
  (qpc = "done" /\ qret = "fulfilled" /\ IsGiven(qsong)) =>
    /\ Cardinality(DeleteWrites) = 1
    /\ \A k \in DeleteWrites :
         /\ qlog[k].text =
              DeleteWord \o Space \o ToDigits(ValueOf(qsong) + 1) \o <<":">>
                \o ToDigits(Len(qfiles)) \o NL
         /\ Cardinality(ReadsBefore(k)) = 2

\* What does hold: a delete request is written at most once, after the two
\* responses have been read, and its range starts at p+1; for a current
\* song at a position other than 0 it is written.
C28_DeleteAfterReads ==
  /\ Cardinality(DeleteWrites) <= 1
  /\ \A k \in DeleteWrites :
       /\ Cardinality(ReadsBefore(k)) = 2
       /\ StartsWith(qlog[k].text,
                     DeleteWord \o Space \o ToDigits(ValueOf(qsong) + 1)
                       \o <<":">>)
  /\ (qpc = "done" /\ qret = "fulfilled" /\ IsGiven(qsong)
        /\ ValueOf(qsong) # 0) => Cardinality(DeleteWrites) = 1

\* The end of the range is the number of characters of the playlistinfo
\* response.
C28_EndIsTextLength ==
  \A k \in DeleteWrites :
    qlog[k].text =
      DeleteWord \o Space \o ToDigits(ValueOf(qsong) + 1) \o <<":">>
        \o ToDigits(Len(PlaylistInfoText(qfiles))) \o NL

(***************************************************************************)
(* Properties of the exchanges on a connection                             *)
(***************************************************************************)

\* The writes and reads among the operations on a connection, in order.
Exchanges(ops) ==
  LET IsExchange(o) == o.op \in {"write", "read", "readAll"}
  IN SelectSeq(ops, IsExchange)

\* A request is written first; after a request comes the read of its
\* response, after a read the next request.
Alternates(ops) ==
  \A k \in DOMAIN Exchanges(ops) :
    IF k % 2 = 1 THEN Exchanges(ops)[k].op = "write"
    ELSE Exchanges(ops)[k].op \in {"read", "readAll"}

NoidleReplyRead(i) ==
  /\ i \in DOMAIN calls
  /\ calls[i].method = "noidle"
  /\ calls[i].pc = "n_read"
  /\ calls'[i].pc = "done"

\* C30: when noidle() has written its cancellation request and read the
\* reply, the idling flag is false, whether noidle() returns the reply or
\* throws because the reply is an ACK error.
C30_NoidleClearsFlag ==
  [][\A i \in DOMAIN calls : NoidleReplyRead(i) => ~idling']_vars

\* A noidle() called while idling has thrown an ACKError, and the flag is
\* false.
C30_Witness ==
  \E i \in DOMAIN calls :
    /\ calls[i].method = "noidle"
    /\ calls[i].wasIdling
    /\ calls[i].pc = "done"
    /\ calls[i].promise = "rejected"
    /\ calls[i].err = "ACKError"
    /\ ~idling

(***************************************************************************)
(* Properties of the session after an error                                *)
(***************************************************************************)

\* Command i has failed with an ACK error.
FailedWithAck(i) ==
  IsCommand(i) /\ calls[i].pc = "done" /\ calls[i].err = "ACKError"

\* Command i took a step.
CommandStep(i) ==
  i \in DOMAIN calls /\ IsCommand(i) /\ calls'[i] # calls[i]

\* C31: an ACK error leaves the session usable. After a command has failed
\* with an ACK error the connection used for it is closed, with the close as
\* the last operation on it; no step of the command has changed the idling
\* flag; and a command issued afterwards that has completed has made its own
\* round trip (write, read of the response, close) on a connection of its
\* own and got the response read from it.
C31_UsableAfterAck ==
  /\ [](\A i \in DOMAIN calls :
          FailedWithAck(i) =>
            /\ ~conns[calls[i].conn].open
            /\ OpsOn(calls[i].conn) = RoundTrip(i)
            /\ \A j \in DOMAIN calls :
                 (j > i /\ IsCommand(j) /\ calls[j].pc = "done") =>
                   /\ calls[j].conn # calls[i].conn
                   /\ OpsOn(calls[j].conn) = RoundTrip(j)
                   /\ ~conns[calls[j].conn].open
                   /\ calls[j].resp = conns[calls[j].conn].recv)
  /\ [][\A i \in DOMAIN calls : CommandStep(i) => idling' = idling]_vars

\* A command has failed with an ACK error and the command issued after it
\* has returned the daemon's OK.
C31_Witness ==
  \E i, j \in DOMAIN calls :
    /\ j > i
    /\ FailedWithAck(i)
    /\ calls[i].resp = RespAck
    /\ IsCommand(j) /\ calls[j].pc = "done"
    /\ calls[j].promise = "resolved"
    /\ calls[j].resp = RespOK

(***************************************************************************)
(* Properties of repeated keys in parseUnknownList                         *)
(***************************************************************************)

\* The separator key of the call: the argument, or the key of the first
\* "key: value" line when it is omitted.
SeparatorKey ==
  IF psep = Undefined THEN KeyValueLines[1].key ELSE psep

C33_StringFilterQuoted ==
  (cfin.kind = "string" /\ cfin.s # <<>>
     /\ cfpc \in {"compiled", "recompiled"}) =>
    /\ cfout[1] = DoubleQuote
    /\ cfout[Len(cfout)] = DoubleQuote
    /\ cfout = IF DoubleQuoted(cfin.s) THEN cfin.s
               ELSE <<DoubleQuote>> \o cfin.s \o <<DoubleQuote>>

\* What does hold: a string with a double quote at neither end is wrapped,
\* and one with a double quote at either end is returned as it is.
C33_WrappedUnlessQuoteAtAnEnd ==
  (cfin.kind = "string" /\ cfin.s # <<>>
     /\ cfpc \in {"compiled", "recompiled"}) =>
    cfout = IF cfin.s[1] = DoubleQuote \/ cfin.s[Len(cfin.s)] = DoubleQuote
            THEN cfin.s
            ELSE <<DoubleQuote>> \o cfin.s \o <<DoubleQuote>>

(***************************************************************************)
(* Properties of concurrent idle requests                                  *)
(***************************************************************************)

\* Idle call i has been made and its response has not arrived.
IdleAwaited(i) ==
  calls[i].method = "idle"
    /\ calls[i].pc \in {"i_connect", "i_write", "i_readAll"}

\* Idle call j has opened a connection.
IdleConnected(j) ==
  calls[j].method = "idle" /\ calls[j].conn \in DOMAIN conns

\* C34: at most one idle request of a session is outstanding: an idle() call
\* made while an earlier idle's response has not arrived opens no connection
\* and so writes no second idle request.
C34_OneIdleOutstanding ==
  \A i, j \in DOMAIN calls :
    (i < j /\ IdleAwaited(i)) => ~IdleConnected(j)

(***************************************************************************)
(* Properties of the connections' release                                  *)
(***************************************************************************)

\* The call that opened connection c has finished, with a result or with a
\* failure.
OwnerFinished(c) == calls[conns[c].owner].pc \in {"done", "failed"}

\* C35: every connection the session opens is closed by the time the
\* operation that opened it has finished, whether it succeeded or failed:
\* the command connection and the cancellation connection of sendCommand,
\* the connections of idle and noidle, and the connection of
\* sendCommandBinary.
C35_ConnectionsClosed ==
  /\ \A c \in DOMAIN conns : OwnerFinished(c) => ~conns[c].open
  /\ (bpc \in {"done", "failed"} /\ bops # <<>>) =>
       bops[Len(bops)].op = "close"

\* What does hold: the one connection that is closed is the command
\* connection of a sendCommand whose response was read.
C35_ClosedAfterResponseOnly ==
  /\ \A c \in DOMAIN conns :
       ~conns[c].open <=>
         /\ IsCommand(conns[c].owner)
         /\ c = calls[conns[c].owner].conn
         /\ calls[conns[c].owner].pc = "done"
  /\ \A k \in DOMAIN bops : bops[k].op # "close"

(***************************************************************************)
(* Properties of the framer's stopping point                               *)
(***************************************************************************)

\* C36: the framer never stops before the daemon's terminator: whenever
\* getResponse returns, the returned bytes are the complete response, up to
\* and including its final "OK\n" line or its ACK line, also when a chunk
\* that is not the last one ends with "OK\n" or holds "ACK " inside a value.
C36_ReturnsCompleteResponse == fpc = "returned" => fret = fstream

\* What does hold: getResponse returns the bytes up to and including the
\* first chunk that ends with "OK\n" or holds "ACK ", wherever in the
\* response that chunk lies.
C36_ReturnsAtFirstMatchingChunk ==
  fpc = "returned" =>
    /\ fret = SubSeq(fstream, 1, fpos)
    /\ FramerStops(fcontent)

(***************************************************************************)
(* Properties of the chunk loop's progress                                 *)
(***************************************************************************)

\* C37: sendCommandBinary ends after finitely many chunk requests for every
\* sequence of responses that carry the "binary: " header: each iteration of
\* the loop strictly increases the request offset, so the same offset is
\* never requested twice, also when a response declares a binary length of 0
\* while the offset is below the declared total size.
C37_OffsetsStrictlyIncrease ==
  \A k, m \in DOMAIN breqs : k < m => breqs[k] < breqs[m]

\* What does hold: the offset never decreases, and it advances by the binary
\* length the response declares, which may be 0.
C37_OffsetAdvancesByDeclaredLength ==
  /\ \A k, m \in DOMAIN breqs : k < m => breqs[k] <= breqs[m]
  /\ \A k \in DOMAIN breqs :
       (k < Len(breqs) /\ k <= Len(bsent)) =>
         breqs[k + 1] = breqs[k] + bsent[k].binary

====
